---- MODULE Spec2Model ----
(***************************************************************************)
(* MedGraph Navigator: the natural-language query engine.                  *)
(*                                                                         *)
(* The model covers the two request handlers of app/api/query/route.ts     *)
(* (the current one, built on executeQueryWithLLM and processQueryResults, *)
(* and the legacy one with its in-line refinement loop), the intent        *)
(* analysis, the prompt builder and the result validator.  The generation  *)
(* service (llm.invoke), the data store (db.query / cursor.all) and the    *)
(* intent gate (fetch /api/detect-intent) are the environment: every await *)
(* on them is a state of the handler, and their answer is chosen by \E.    *)
(***************************************************************************)
EXTENDS Integers, Sequences, FiniteSets, TLC

(***************************************************************************)
(* Text.  Questions are strings; the String methods used by the code are   *)
(* computed character by character.                                        *)
(***************************************************************************)
UpperAlphabet == "ABCDEFGHIJKLMNOPQRSTUVWXYZ"
LowerAlphabet == "abcdefghijklmnopqrstuvwxyz"
CharAt(s, i) == SubSeq(s, i, i)

CharsOf(alphabet) == {CharAt(alphabet, i) : i \in 1..Len(alphabet)}
UpperChars == CharsOf(UpperAlphabet)
LowerChars == CharsOf(LowerAlphabet)
DigitChars == CharsOf("0123456789")

\* upper-case letter -> lower-case letter
LowerLetter ==
    [c \in UpperChars |->
        CharAt(LowerAlphabet, CHOOSE i \in 1..Len(UpperAlphabet) : CharAt(UpperAlphabet, i) = c)]

\* String.prototype.toLowerCase, character by character (halving keeps the
\* evaluation shallow on long texts)
RECURSIVE toLowerCase(_)
toLowerCase(s) ==
    IF Len(s) = 0 THEN ""
    ELSE IF Len(s) = 1 THEN (IF s \in DOMAIN LowerLetter THEN LowerLetter[s] ELSE s)
    ELSE LET half == Len(s) \div 2
         IN  toLowerCase(SubSeq(s, 1, half)) \o toLowerCase(SubSeq(s, half + 1, Len(s)))

\* String.prototype.includes
includes(s, t) ==
    \E i \in 1..(Len(s) - Len(t) + 1) : SubSeq(s, i, i + Len(t) - 1) = t

\* String.prototype.startsWith
startsWith(s, t) == Len(t) <= Len(s) /\ SubSeq(s, 1, Len(t)) = t

\* the white space String.prototype.trim removes
IsSpace(c) == c \in {" ", "\n", "\t", "\r"}

\* a trim that removes nothing
trimNothing(s) == s

\* String.prototype.trim
RECURSIVE trim(_)
trim(s) ==
    IF Len(s) = 0 THEN ""
    ELSE IF IsSpace(CharAt(s, 1)) THEN trim(SubSeq(s, 2, Len(s)))
    ELSE IF IsSpace(CharAt(s, Len(s))) THEN trim(SubSeq(s, 1, Len(s) - 1))
    ELSE s

IsDigit(c) == c \in DigitChars

\* \w of a regular expression
IsWordChar(c) ==
    c \in UpperChars \/ c \in LowerChars \/ IsDigit(c) \/ c = "_"

\* the positions where /\b(19|20)\d{2}\b/ matches
YearAt(s, i) ==
    /\ i + 3 <= Len(s)
    /\ SubSeq(s, i, i + 1) \in {"19", "20"}
    /\ IsDigit(CharAt(s, i + 2))
    /\ IsDigit(CharAt(s, i + 3))
    /\ (i = 1 \/ ~IsWordChar(CharAt(s, i - 1)))
    /\ (i + 3 = Len(s) \/ ~IsWordChar(CharAt(s, i + 4)))

\* userQuery.match(/\b(19|20)\d{2}\b/g): the first match, "" when there is none
yearMatches(s) ==
    LET hits == {i \in 1..Len(s) : YearAt(s, i)}
    IN  IF hits = {} THEN ""
        ELSE LET first == CHOOSE i \in hits : \A j \in hits : i <= j
             IN  SubSeq(s, first, first + 3)

(***************************************************************************)
(* Intent analysis (app/utils/queryIntentAnalyzer.ts).                     *)
(***************************************************************************)
medicalTerms ==
    << "diabetes", "hypertension", "otitis", "asthma", "heart disease",
       "cardiac", "cancer", "arthritis", "condition", "disease" >>

races == << "white", "black", "asian", "hispanic", "native", "other" >>

IsGeneralQuery(lq) ==
    /\ \/ startsWith(lq, "list")
       \/ startsWith(lq, "show")
       \/ startsWith(lq, "get")
       \/ includes(lq, "patients")
       \/ includes(lq, "born in")
    /\ ~includes(lq, "diabetes")
    /\ ~includes(lq, "hypertension")
    /\ ~includes(lq, "otitis")
    /\ ~includes(lq, "asthma")
    /\ ~includes(lq, "heart disease")
    /\ ~includes(lq, "cancer")

QueryTypeOf(lq) ==
    IF \/ startsWith(lq, "how many")
       \/ includes(lq, "count")
       \/ includes(lq, "most common")
       \/ includes(lq, "distribution")
    THEN "count"
    ELSE IF \/ includes(lq, "analyze")
            \/ includes(lq, "trend")
            \/ includes(lq, "pattern")
            \/ includes(lq, "compare")
    THEN "analysis"
    ELSE "data"

KeywordsOf(lq) ==
    LET explicit == SelectSeq(medicalTerms, LAMBDA term : includes(lq, term))
    IN  IF includes(lq, "with their conditions") /\ Len(explicit) = 0
        THEN << "" >>
        ELSE explicit

GenderOf(lq) ==
    IF \/ includes(lq, " male")
       \/ includes(lq, "males")
       \/ includes(lq, " men")
       \/ includes(lq, " man")
    THEN "M"
    ELSE IF \/ includes(lq, "female")
            \/ includes(lq, "females")
            \/ includes(lq, "women")
            \/ includes(lq, "woman")
    THEN "F"
    ELSE ""

RaceOf(lq) ==
    LET hits == {i \in 1..Len(races) : includes(lq, races[i])}
    IN  IF hits = {} THEN ""
        ELSE races[CHOOSE i \in hits : \A j \in hits : i <= j]

\* Object.keys(filters).length; an absent filter is the empty string
FilterCount(filters) ==
    Cardinality({k \in {"year", "gender", "race"} : filters[k] # ""})

analyzeQueryIntent(userQuery) ==
    LET lq == toLowerCase(userQuery)
        keywords == KeywordsOf(lq)
        filters == [year |-> yearMatches(userQuery),
                    gender |-> GenderOf(lq),
                    race |-> RaceOf(lq)]
    IN  [queryType |-> QueryTypeOf(lq),
         keywords |-> keywords,
         filters |-> filters,
         complexity |-> IF Len(keywords) > 0 /\ FilterCount(filters) > 0 THEN "complex"
                        ELSE IF Len(keywords) > 0 \/ FilterCount(filters) > 0
                        THEN "moderate"
                        ELSE "simple",
         exactQuery |-> \/ includes(lq, "list the patient")
                        \/ includes(lq, "show me patient")
                        \/ includes(lq, "patients born in")
                        \/ includes(lq, "who were born in"),
         generalQuery |-> IsGeneralQuery(lq)]

(***************************************************************************)
(* Query text cleaning (cleanAqlQuery of app/utils/queryUtils.ts and of    *)
(* the legacy route).  The backquote cannot be written in a TLA+ string:   *)
(* the character ~ stands for it, so Fence is the markdown fence.          *)
(***************************************************************************)
Fence == "~~~"

\* the index of the first occurrence of t in s from position from, 0 when none
indexOf(s, t, from) ==
    LET hits == {i \in from..(Len(s) - Len(t) + 1) : SubSeq(s, i, i + Len(t) - 1) = t}
    IN  IF hits = {} THEN 0 ELSE CHOOSE i \in hits : \A j \in hits : i <= j

\* text.split(sep)[1], for a text that contains sep
SecondBlock(text, sep) ==
    LET open == indexOf(text, sep, 1)
        close == indexOf(text, sep, open + Len(sep))
    IN  IF close = 0 THEN SubSeq(text, open + Len(sep), Len(text))
        ELSE SubSeq(text, open + Len(sep), close - 1)

\* s.replace(/```/g, "")
RECURSIVE removeFences(_)
removeFences(s) ==
    LET at == indexOf(s, Fence, 1)
    IN  IF at = 0 THEN s
        ELSE SubSeq(s, 1, at - 1) \o removeFences(SubSeq(s, at + Len(Fence), Len(s)))

\* the block of a fenced text, its language identifier line removed
FencedBlock(text) ==
    LET blockContent == trim(SecondBlock(text, Fence))
        nl == indexOf(blockContent, "\n", 1)
        firstLine == IF nl = 0 THEN blockContent ELSE SubSeq(blockContent, 1, nl - 1)
        rest == IF nl = 0 THEN "" ELSE SubSeq(blockContent, nl + 1, Len(blockContent))
    IN  IF toLowerCase(firstLine) \in {"sql", "aql"} THEN trim(rest) ELSE blockContent

prefixes == << "aql", "sql", "AQL:", "SQL:" >>

RECURSIVE StripPrefixes(_, _)
StripPrefixes(query, i) ==
    IF i > Len(prefixes) THEN query
    ELSE IF startsWith(toLowerCase(query), toLowerCase(prefixes[i]))
    THEN StripPrefixes(trim(SubSeq(query, Len(prefixes[i]) + 1, Len(query))), i + 1)
    ELSE StripPrefixes(query, i + 1)

cleanAqlQuery(text) ==
    LET unfenced == IF includes(text, Fence) THEN FencedBlock(text) ELSE text
    IN  trim(removeFences(StripPrefixes(unfenced, 1)))

(***************************************************************************)
(* Result rows.  A row is a number or an object; a field of an object is   *)
(* << >> when the object has no such property and << v >> when it has.     *)
(* The code reads gender, birthdate, condition and id under several        *)
(* spellings (gender, Gender, GENDER); the rows here use the lower-case    *)
(* property names.                                                         *)
(***************************************************************************)
NoFields ==
    [id |-> << >>, gender |-> << >>, birthdate |-> << >>, race |-> << >>,
     condition |-> << >>, count |-> << >>, value |-> << >>,
     male |-> << >>, female |-> << >>]

Number(n) == [type |-> "number", num |-> n, fields |-> NoFields]
Object(f) == [type |-> "object", num |-> 0, fields |-> f]
\* a null row (AQL returns null for a missing document); reading a property
\* of it throws a TypeError
Null == [type |-> "null", num |-> 0, fields |-> NoFields]

Has(item, k) == item.fields[k] # << >>
Keys(item) == {k \in DOMAIN NoFields : Has(item, k)}
\* JavaScript truthiness of a property
TruthyNum(item, k) == Has(item, k) /\ item.fields[k][1] # 0
TruthyStr(item, k) == Has(item, k) /\ item.fields[k][1] # ""
IsNumber(item) == item.type = "number"
\* typeof null is "object" too
IsObject(item) == item.type \in {"object", "null"}
IsNull(item) == item.type = "null"

\* results.some(P)
\* hits[i] is P(results[i])
Some(hits) == \E i \in DOMAIN hits : hits[i]

\* results.some(P) throws: P reads a property of its item, and a null row comes
\* before the first row that satisfies P
SomeThrows(results, hits) ==
    \E i \in DOMAIN results :
        IsNull(results[i]) /\ \A j \in 1..(i - 1) : ~hits[j]

Patient(id, gender, birthdate) ==
    Object([NoFields EXCEPT !.id = << id >>, !.gender = << gender >>,
                            !.birthdate = << birthdate >>, !.race = << "white" >>])

RaceCount(race, count) ==
    Object([NoFields EXCEPT !.race = << race >>, !.count = << count >>])

GenderDistribution(male, female) ==
    Object([NoFields EXCEPT !.male = << male >>, !.female = << female >>])

(***************************************************************************)
(* The result validator (isValidResult of app/utils/queryUtils.ts).        *)
(***************************************************************************)
CountKey(k) == k = "count" \/ k = "male" \/ k = "female" \/ k = "race"

HasGender(item, gender) == Has(item, "gender") /\ item.fields.gender[1] = gender

HasBirthYear(item, year) ==
    TruthyStr(item, "birthdate") /\ includes(item.fields.birthdate[1], year)

HasCondition(item, keywords) ==
    /\ TruthyStr(item, "condition")
    /\ \E i \in 1..Len(keywords) :
          /\ keywords[i] # ""
          /\ includes(toLowerCase(item.fields.condition[1]), toLowerCase(keywords[i]))

isValidResult(results, queryType, originalQuery, intent) ==
    LET lq == toLowerCase(originalQuery)
        first == results[1]
    IN  IF Len(results) = 0 THEN FALSE
        ELSE IF /\ queryType = "count"
                /\ includes(lq, "how many")
                /\ Len(results) > 10
                /\ ~IsNumber(first)
                /\ ~Has(first, "count")
        THEN FALSE
        ELSE IF queryType = "count" /\ Len(results) = 1 /\ IsNumber(first)
        THEN TRUE
        ELSE IF queryType = "count" /\ Len(results) = 1 /\ IsObject(first)
        THEN \E k \in Keys(first) : CountKey(k)
        ELSE IF /\ queryType = "count"
                /\ Len(results) > 1
                /\ (TruthyNum(first, "count") \/ TruthyNum(first, "value"))
        THEN TRUE
        ELSE IF queryType = "count" /\ startsWith(lq, "how many")
        THEN FALSE
        ELSE IF queryType = "data" /\ intent.filters.gender # ""
        THEN Some([i \in DOMAIN results |-> HasGender(results[i], intent.filters.gender)])
        ELSE IF queryType = "data" /\ intent.filters.year # ""
        THEN Some([i \in DOMAIN results |-> HasBirthYear(results[i], intent.filters.year)])
        ELSE IF Len(intent.keywords) > 0 /\ ~intent.generalQuery
        THEN Some([i \in DOMAIN results |-> HasCondition(results[i], intent.keywords)])
        ELSE IF intent.generalQuery
        THEN Some([i \in DOMAIN results |-> TruthyStr(results[i], "id")])
        ELSE TRUE


\* isValidResult ends in a TypeError instead of a verdict
isValidResultThrows(results, queryType, originalQuery, intent) ==
    LET lq == toLowerCase(originalQuery)
        first == results[1]
    IN  IF Len(results) = 0 THEN FALSE
        ELSE IF /\ queryType = "count"
                /\ includes(lq, "how many")
                /\ Len(results) > 10
                /\ ~IsNumber(first)
                /\ (IsNull(first) \/ ~Has(first, "count"))
        THEN IsNull(first)
        ELSE IF queryType = "count" /\ Len(results) = 1 /\ IsNumber(first)
        THEN FALSE
        ELSE IF queryType = "count" /\ Len(results) = 1 /\ IsObject(first)
        THEN IsNull(first)
        ELSE IF /\ queryType = "count"
                /\ Len(results) > 1
                /\ (TruthyNum(first, "count") \/ TruthyNum(first, "value"))
        THEN FALSE
        ELSE IF queryType = "count" /\ startsWith(lq, "how many")
        THEN FALSE
        ELSE IF queryType = "data" /\ intent.filters.gender # ""
        THEN SomeThrows(results, [i \in DOMAIN results |-> HasGender(results[i], intent.filters.gender)])
        ELSE IF queryType = "data" /\ intent.filters.year # ""
        THEN SomeThrows(results, [i \in DOMAIN results |-> HasBirthYear(results[i], intent.filters.year)])
        ELSE IF Len(intent.keywords) > 0 /\ ~intent.generalQuery
        THEN SomeThrows(results, [i \in DOMAIN results |-> HasCondition(results[i], intent.keywords)])
        ELSE IF intent.generalQuery
        THEN SomeThrows(results, [i \in DOMAIN results |-> TruthyStr(results[i], "id")])
        ELSE FALSE

(***************************************************************************)
(* Query texts built by the code.  The template literals of the source are *)
(* written on one line, their indentation left out.                        *)
(***************************************************************************)
generateYearPatientFallbackQuery(year) ==
    "FOR node IN MedGraph_node FILTER node.type == 'patient' FILTER CONTAINS(node.BIRTHDATE, '"
    \o year \o "') SORT node.BIRTHDATE DESC LIMIT 15 RETURN { id: node.ID, birthdate: node.BIRTHDATE, gender: node.GENDER, race: node.RACE }"

createDirectCountQuery(intent) ==
    IF intent.filters.gender = "F"
    THEN "RETURN LENGTH(FOR node IN MedGraph_node FILTER node.type == 'patient' AND node.GENDER == 'F' RETURN 1)"
    ELSE IF intent.filters.gender = "M"
    THEN "RETURN LENGTH(FOR node IN MedGraph_node FILTER node.type == 'patient' AND node.GENDER == 'M' RETURN 1)"
    ELSE IF intent.filters.race # ""
    THEN "RETURN LENGTH(FOR node IN MedGraph_node FILTER node.type == 'patient' AND CONTAINS(LOWER(node.RACE), \""
         \o toLowerCase(intent.filters.race) \o "\") RETURN 1)"
    ELSE IF Len(intent.keywords) > 0 /\ intent.keywords[1] # ""
    THEN "RETURN LENGTH(FOR node IN MedGraph_node FILTER node.type == 'condition' AND CONTAINS(LOWER(node.DESCRIPTION), \""
         \o toLowerCase(intent.keywords[1]) \o "\") RETURN 1)"
    ELSE "RETURN LENGTH(FOR node IN MedGraph_node FILTER node.type == 'patient' RETURN 1)"

(***************************************************************************)
(* The prompt builder (generateLLMPrompt of app/utils/llmPromptGenerator). *)
(* A prompt is the record of the parts that vary: the attempt number, the  *)
(* previous query and the failure reason it quotes (none on attempt 1) and *)
(* the guidance block it adds to the schema and the fixed rules.           *)
(***************************************************************************)
FirstGuidance(userQuery, intent) ==
    IF intent.queryType = "count" /\ includes(toLowerCase(userQuery), "how many")
    THEN "count"
    ELSE IF intent.generalQuery THEN "general"
    ELSE IF intent.exactQuery /\ intent.filters.year # "" /\ Len(intent.keywords) = 0
    THEN "exact"
    ELSE IF intent.complexity = "complex" THEN "complex"
    ELSE "none"

RetryGuidance(userQuery, intent, attempt, errorMessage) ==
    IF intent.queryType = "count" /\ includes(toLowerCase(userQuery), "how many")
    THEN "countCritical"
    ELSE IF attempt >= 3 /\ includes(errorMessage, "No results")
    THEN IF Len(intent.keywords) > 0 /\ intent.filters.year # ""
         THEN "broadenConditionYear"
         ELSE IF intent.filters.year # "" THEN "broadenYear" ELSE "none"
    ELSE "none"

generateLLMPrompt(userQuery, intent, attempt, previousQuery, errorMessage) ==
    IF attempt = 1
    THEN [attempt |-> 1, previousQuery |-> "", errorMessage |-> "",
          guidance |-> FirstGuidance(userQuery, intent)]
    ELSE [attempt |-> attempt, previousQuery |-> previousQuery,
          errorMessage |-> errorMessage,
          guidance |-> RetryGuidance(userQuery, intent, attempt, errorMessage)]

(***************************************************************************)
(* The conclusions of processQueryResults and analyzeQueryResults          *)
(* (app/utils/resultAnalyzer.ts).                                          *)
(***************************************************************************)
NoResultsConclusion == "No results found for your query."

\* toFixed(1) of part / total * 100; NaN when the total is 0
Percent(part, total) ==
    IF total = 0 THEN "NaN"
    ELSE LET tenths == (2000 * part + total) \div (2 * total)
         IN  ToString(tenths \div 10) \o "." \o ToString(tenths % 10)

\* Array.prototype.join
RECURSIVE join(_, _)
join(list, separator) ==
    IF Len(list) = 0 THEN ""
    ELSE IF Len(list) = 1 THEN list[1]
    ELSE list[1] \o separator \o join(Tail(list), separator)

EntityDescription(intent, withKeywords) ==
    IF intent.filters.gender = "F" THEN "female patients"
    ELSE IF intent.filters.gender = "M" THEN "male patients"
    ELSE IF intent.filters.race # ""
    THEN "patients with race '" \o intent.filters.race \o "'"
    ELSE IF withKeywords /\ Len(intent.keywords) > 0
    THEN "patients with " \o join(intent.keywords, ", ")
    ELSE "patients"

CountConclusion(n, intent, withKeywords) ==
    "There are " \o ToString(n) \o " " \o EntityDescription(intent, withKeywords)
    \o " in the database."

DistributionConclusion(item) ==
    LET male == item.fields.male[1]
        female == item.fields.female[1]
        total == male + female
    IN  "There are " \o ToString(male) \o " male patients ("
        \o Percent(male, total) \o "%) and " \o ToString(female)
        \o " female patients (" \o Percent(female, total) \o "%)."

IsSingleNumber(results) == Len(results) = 1 /\ IsNumber(results[1])

\* results.length === 1 && typeof results[0] === "object" &&
\* results[0].male !== undefined && results[0].female !== undefined
IsGenderDistribution(results) ==
    /\ Len(results) = 1
    /\ IsObject(results[1])
    /\ Has(results[1], "male")
    /\ Has(results[1], "female")

\* the test above reads results[0].male: a TypeError on a null row
GenderDistributionThrows(results) == Len(results) = 1 /\ IsNull(results[1])

ImprovedCountQuery(intent) ==
    IF intent.filters.gender # ""
    THEN "RETURN LENGTH(FOR node IN MedGraph_node FILTER node.type == 'patient' AND node.GENDER == '"
         \o intent.filters.gender \o "' RETURN 1)"
    ELSE IF intent.filters.race # ""
    THEN "RETURN LENGTH(FOR node IN MedGraph_node FILTER node.type == 'patient' AND CONTAINS(LOWER(node.RACE), \""
         \o toLowerCase(intent.filters.race) \o "\") RETURN 1)"
    ELSE IF Len(intent.keywords) > 0
    THEN "RETURN LENGTH(FOR node IN MedGraph_node FILTER node.type == 'condition' AND CONTAINS(LOWER(node.DESCRIPTION), \""
         \o toLowerCase(intent.keywords[1]) \o "\") RETURN 1)"
    ELSE "RETURN LENGTH(FOR node IN MedGraph_node FILTER node.type == 'patient' RETURN 1)"

HasUnknownRace(item) == TruthyStr(item, "race") /\ (\A i \in 1..Len(races) : races[i] # toLowerCase(item.fields.race[1]))

ReturnedResults(n) == "The query returned " \o ToString(n) \o " results."

\* the part of analyzeQueryResults that answers without the generation
\* service: "verdict" is "llm" when the service has to be asked
analyzeWithoutLLM(userQuery, results, intent) ==
    LET lq == toLowerCase(userQuery)
        answer(valid, conclusion, improved) ==
            [verdict |-> "done", isValid |-> valid, conclusion |-> conclusion,
             improvedQuery |-> improved]
    IN  IF /\ intent.queryType = "count"
           /\ includes(lq, "how many")
           /\ IsSingleNumber(results)
        THEN answer(TRUE, CountConclusion(results[1].num, intent, FALSE), "")
        ELSE IF IsSingleNumber(results)
        THEN answer(TRUE, "The count is " \o ToString(results[1].num) \o ".", "")
        ELSE IF GenderDistributionThrows(results)
        THEN [verdict |-> "throw", isValid |-> FALSE, conclusion |-> "",
              improvedQuery |-> ""]
        ELSE IF IsGenderDistribution(results)
        THEN answer(TRUE, DistributionConclusion(results[1]), "")
        ELSE IF /\ intent.queryType = "count"
                /\ includes(lq, "how many")
                /\ Len(results) > 10
        THEN answer(FALSE,
                    "The query returned a list of items instead of a count. An improved query would return the total count.",
                    ImprovedCountQuery(intent))
        ELSE IF /\ includes(lq, "race")
                /\ includes(lq, "distribution")
                /\ Len(results) > 5
                /\ SomeThrows(results, [i \in DOMAIN results |-> HasUnknownRace(results[i])])
        THEN [verdict |-> "throw", isValid |-> FALSE, conclusion |-> "",
              improvedQuery |-> ""]
        ELSE IF /\ includes(lq, "race")
                /\ includes(lq, "distribution")
                /\ Len(results) > 5
                /\ Some([i \in DOMAIN results |-> HasUnknownRace(results[i])])
        THEN answer(FALSE,
                    "The query results contain invalid race values. An improved query would filter for standard race categories only.",
                    "FOR node IN MedGraph_node FILTER node.type == 'patient' AND node.RACE IN ['white', 'black', 'hispanic', 'asian', 'native', 'other'] COLLECT race = node.RACE WITH COUNT INTO count SORT count DESC RETURN { race: race, count: count }")
        ELSE [verdict |-> "llm", isValid |-> FALSE, conclusion |-> "",
              improvedQuery |-> ""]

(***************************************************************************)
(* The environment's answers.                                              *)
(***************************************************************************)
ManyRows == 11

Questions ==
    { "How many patients are female?",
      "Patients with diabetes born in 1964",
      "List patients born in 1964",
      "What is the distribution of patients by race?",
      "List 10 patients with their birthdates and genders",
      "How many patients with diabetes were born in 1964?",
      "  ",
      "" }

TwoPatients ==
    << Patient("p1", "F", "1964-02-11"), Patient("p2", "M", "1970-07-30") >>

\* what cursor.all() yields when the store answers a query
DbRows ==
    { << >>, << Number(5) >>, << Null >>, << GenderDistribution(3, 5) >>,
      TwoPatients, [i \in 1..ManyRows |-> Patient("p1", "F", "1964-02-11")], << RaceCount("white", 7), RaceCount("black", 3) >> }

\* the calls of one request that throw are at most this many
MaxFaults == 1

\* the message of the error a rejected db.query throws
DbErrors == { "AQL: syntax error, unexpected identifier" }

SyntaxErrorMessage == "Unexpected token in JSON"

\* the answers of POST /api/detect-intent: fetch throws, the 500 response the
\* gate gives after its own failure (shouldProcessQuery false), or an ok
\* response with shouldProcessQuery true or false
GateAnswers ==
    { [kind |-> "throw", ok |-> FALSE, shouldProcessQuery |-> FALSE, message |-> ""],
      [kind |-> "json", ok |-> FALSE, shouldProcessQuery |-> FALSE,
       message |-> "I encountered an error processing your query. Please try asking about the medical database."],
      [kind |-> "json", ok |-> TRUE, shouldProcessQuery |-> TRUE, message |-> ""],
      [kind |-> "json", ok |-> TRUE, shouldProcessQuery |-> FALSE,
       message |-> "I can only help with questions about the medical database."] }
\* no fetch is awaited
NoGate == [kind |-> "none", ok |-> FALSE, shouldProcessQuery |-> FALSE, message |-> ""]

\* what the generation service writes when asked to analyse results: the
\* call throws, the text holds no JSON, or it holds the structured reply
AnalysisAnswers ==
    { [kind |-> "throw", isValid |-> FALSE, improvedQuery |-> ""],
      [kind |-> "unparsable", isValid |-> FALSE, improvedQuery |-> ""],
      [kind |-> "json", isValid |-> TRUE, improvedQuery |-> ""],
      [kind |-> "json", isValid |-> FALSE, improvedQuery |-> ""],
      [kind |-> "json", isValid |-> FALSE,
       improvedQuery |-> "AQL: RETURN COUNT(FOR p IN MedGraph_node RETURN 1)"] }

(***************************************************************************)
(* State of one request.                                                   *)
(***************************************************************************)
VARIABLES
    handler,      \* "current": POST on executeQueryWithLLM; "legacy": the older POST
    userQuery,    \* body.query
    generation,   \* the text the generation service writes for this request
    pc,           \* where the handler stands: an await or a point between two
    gate,         \* the answer of the awaited fetch of /api/detect-intent
    intent,       \* analyzeQueryIntent(userQuery), once computed
    queryType,    \* determineQueryType(userQuery) of the legacy handler
    attempts,
    attemptHistory,
    result,
    resultQuery,  \* the text of the query whose execution gave result
    successfulQuery,
    aqlQuery,
    prompt,       \* the argument of the last llm.invoke for a query
    outcome,      \* how the last finished loop iteration ended
    lastError,    \* the message of the error that ended the last iteration, if one did
    timers,       \* the attempts whose setTimeout is armed
    aborted,      \* controller.signal.aborted of the current attempt
    queryTimedOut,
    useOptimizedPattern,
    dbState,      \* "idle", "pending" (a db.query is awaited), "lost" (it never answers)
    dbLog,        \* the texts passed to db.query, in order
    llmCalls,     \* the number of llm.invoke calls
    faults,       \* the number of db.query and llm.invoke calls that threw
    emptyStreak,  \* the number of latest consecutive queries of the executor's
                  \* loop that were executed and returned no rows
    analysis,     \* the value analyzeQueryResults returned
    response,     \* the NextResponse.json the handler returned
    calls,        \* the activation records of the calls that run concurrently,
                  \* when more than one is followed
    store,        \* the entries of localStorage, or statsCache of the stats route
    now           \* Date.now()

vars ==
    << handler, userQuery, generation, pc, gate, intent, queryType, attempts,
       attemptHistory, result, resultQuery, successfulQuery, aqlQuery, prompt, outcome,
       lastError, timers, aborted, queryTimedOut, useOptimizedPattern, dbState,
       dbLog, llmCalls, faults, emptyStreak, analysis, response, calls, store, now >>

\* what a request is made of, and the calls that run beside it
request == << handler, userQuery, generation, calls, store, now >>
loopState == << attempts, attemptHistory, result, resultQuery, successfulQuery, aqlQuery >>
legacyFlags == << queryTimedOut, useOptimizedPattern >>

maxAttempts == 8

NoPrompt == [attempt |-> 0, previousQuery |-> "", errorMessage |-> "", guidance |-> ""]
NoAnalysis == [verdict |-> "none", isValid |-> FALSE, conclusion |-> "", improvedQuery |-> ""]
NoResponse ==
    [status |-> 0, error |-> "", query |-> "", result |-> << >>, conclusion |-> "",
     attempts |-> 0, attemptHistory |-> << >>]

Init ==
    /\ handler \in {"current", "legacy"}
    /\ userQuery \in Questions
    \* what the generation service writes when asked for a query
    /\ generation \in { "~~~aql\nFOR p IN MedGraph_node RETURN p\n~~~",
                         "RETURN LENGTH(FOR p IN MedGraph_node RETURN 1)" }
    /\ pc = "start"
    /\ gate = NoGate
    /\ intent = analyzeQueryIntent("")
    /\ queryType = ""
    /\ attempts = 0
    /\ attemptHistory = << >>
    /\ result = << >>
    /\ resultQuery = ""
    /\ successfulQuery = ""
    /\ aqlQuery = ""
    /\ prompt = NoPrompt
    /\ outcome = "none"
    /\ lastError = ""
    /\ timers = {}
    /\ aborted = FALSE
    /\ queryTimedOut = FALSE
    /\ useOptimizedPattern = FALSE
    /\ dbState = "idle"
    /\ dbLog = << >>
    /\ llmCalls = 0
    /\ faults = 0
    /\ emptyStreak = 0
    /\ analysis = NoAnalysis
    /\ response = NoResponse
    /\ calls = << >>
    /\ store = << >>
    /\ now = 0

\* return NextResponse.json(...)
Respond(status, error, query, rows, conclusion, n, history) ==
    /\ response' = [status |-> status, error |-> error, query |-> query,
                    result |-> rows, conclusion |-> conclusion, attempts |-> n,
                    attemptHistory |-> history]
    /\ pc' = "done"

\* POST without its catch block: the error leaves the handler
RespondErrorRethrown(message) ==
    /\ pc' = "unhandled"
    /\ UNCHANGED response

\* the catch block that ends POST: a 500 response carrying the error
RespondError(message) ==
    Respond(500, "", "Error generating or executing query", << >>,
            "Error: " \o message, 0, << >>)

TypeErrorMessage == "Cannot read properties of null"

\* a db.query or llm.invoke call throws
Throws ==
    /\ faults < MaxFaults
    /\ faults' = faults + 1

\* db.query(text) is called and awaited
Submit(text) ==
    /\ dbLog' = Append(dbLog, text)
    /\ dbState' = "pending"

(***************************************************************************)
(* POST, up to the refinement loop.                                        *)
(***************************************************************************)
\* request.json() and the check of the question
Receive ==
    /\ pc = "start"
    /\ \E body \in {"json", "malformed"} :
          IF body = "malformed"
          THEN RespondError(SyntaxErrorMessage)
          ELSE IF trim(userQuery) = ""
          THEN Respond(400, "Query is required", "", << >>, "", 0, << >>)
          ELSE pc' = "gate" /\ UNCHANGED response
    /\ UNCHANGED << faults, request, emptyStreak, gate, intent, queryType, loopState, prompt, outcome,
                    lastError, timers, aborted, legacyFlags, dbState, dbLog,
                    llmCalls, analysis >>

\* fetch("/api/detect-intent") settles
GateAnswer ==
    /\ pc = "gate"
    /\ gate' \in GateAnswers
    /\ pc' = "gated"
    /\ UNCHANGED << faults, request, emptyStreak, intent, queryType, loopState, prompt,
                    outcome, lastError, timers, aborted, legacyFlags, dbState, dbLog,
                    llmCalls, analysis, response >>

\* the handler's use of the gate's answer: only an ok response is read
Gate ==
    /\ pc = "gated"
    /\ IF gate.kind = "json" /\ gate.ok /\ ~gate.shouldProcessQuery
       THEN Respond(200, "", "", << >>, gate.message, 0, << >>)
       ELSE /\ pc' = IF handler = "current" THEN "intent" ELSE "legacyStart"
            /\ UNCHANGED response
    /\ gate' = NoGate
    /\ UNCHANGED << faults, request, emptyStreak, intent, queryType, loopState, prompt,
                    outcome, lastError, timers, aborted, legacyFlags, dbState, dbLog,
                    llmCalls, analysis >>

IsDirectCount(question, int) ==
    int.queryType = "count" /\ includes(toLowerCase(question), "how many")

\* analyzeQueryIntent, generateThought and the start of the direct count
AnalyzeIntent ==
    /\ pc = "intent"
    /\ intent' = analyzeQueryIntent(userQuery)
    /\ IF IsDirectCount(userQuery, intent')
       THEN /\ Submit(createDirectCountQuery(intent'))
            /\ pc' = "directCount"
       ELSE /\ pc' = "execute"
            /\ UNCHANGED << dbState, dbLog >>
    /\ UNCHANGED << faults, request, emptyStreak, gate, queryType, loopState, prompt, outcome, lastError,
                    timers, aborted, legacyFlags, llmCalls, analysis, response >>

\* the direct count query answers, or throws
DirectCountAnswer ==
    /\ pc = "directCount"
    /\ dbState = "pending"
    /\ dbState' = "idle"
    /\ \/ \E countData \in DbRows :
             /\ UNCHANGED faults
             /\ IF IsSingleNumber(countData)
                THEN Respond(200, "", dbLog[Len(dbLog)], countData,
                             CountConclusion(countData[1].num, intent, FALSE), 1,
                             << dbLog[Len(dbLog)] >>)
                ELSE pc' = "execute" /\ UNCHANGED response
       \/ \E countError \in DbErrors :
             Throws /\ pc' = "execute" /\ UNCHANGED response
    /\ UNCHANGED << request, emptyStreak, gate, intent, queryType, loopState, prompt, outcome,
                    lastError, timers, aborted, legacyFlags, dbLog, llmCalls,
                    analysis >>

(***************************************************************************)
(* executeQueryWithLLM (app/utils/queryExecutor.ts).                       *)
(***************************************************************************)
IsYearOnly(int) ==
    int.generalQuery /\ int.filters.year # "" /\ Len(int.keywords) = 0

\* entry: the direct year query of a simple year-only question
Execute ==
    /\ pc = "execute"
    /\ IF IsYearOnly(intent)
       THEN /\ Submit(generateYearPatientFallbackQuery(intent.filters.year))
            /\ pc' = "directYear"
       ELSE /\ pc' = "loop"
            /\ UNCHANGED << dbState, dbLog >>
    /\ UNCHANGED << faults, request, emptyStreak, gate, intent, queryType, loopState, prompt, outcome,
                    lastError, timers, aborted, legacyFlags, llmCalls, analysis,
                    response >>

DirectYearAnswer ==
    /\ pc = "directYear"
    /\ dbState = "pending"
    /\ dbState' = "idle"
    /\ \/ \E yearPatients \in DbRows :
             IF Len(yearPatients) > 0
             THEN /\ successfulQuery' = dbLog[Len(dbLog)]
                  /\ result' = yearPatients
                  /\ resultQuery' = dbLog[Len(dbLog)]
                  /\ attempts' = 1
                  /\ attemptHistory' = << dbLog[Len(dbLog)] >>
                  /\ pc' = "process"
                  /\ UNCHANGED faults
             ELSE /\ pc' = "loop"
                  /\ UNCHANGED << successfulQuery, result, resultQuery, attempts, attemptHistory,
                                  faults >>
       \/ \E error \in DbErrors :
             /\ Throws
             /\ pc' = "loop"
             /\ UNCHANGED << successfulQuery, result, resultQuery, attempts, attemptHistory >>
    /\ UNCHANGED << request, emptyStreak, gate, intent, queryType, aqlQuery, prompt, outcome,
                    lastError, timers, aborted, legacyFlags, dbLog, llmCalls,
                    analysis, response >>

LastOf(history) == IF Len(history) > 0 THEN history[Len(history)] ELSE ""

\* the loop test with the comparison off by one
LoopGuardInclusive(n) == n <= maxAttempts

\* while (attempts < maxAttempts)
LoopGuard(n) == n < maxAttempts

\* the loop test, attempts++, the prompt and llm.invoke(prompt)
LoopHead ==
    /\ pc = "loop"
    /\ IF LoopGuard(attempts)
       THEN /\ attempts' = attempts + 1
            /\ prompt' = generateLLMPrompt(userQuery, intent, attempts',
                                           LastOf(attemptHistory),
                                           \* the failure reason handed to the
                                           \* prompt builder
                                           IF attempts' > 1
                                           THEN IF Len(result) = 0
                                                THEN "No results found. There might not be any patients matching these criteria."
                                                ELSE "Previous query didn't return valid results"
                                           ELSE "")
            /\ llmCalls' = llmCalls + 1
            /\ pc' = "awaitLLM"
       ELSE /\ pc' = "return"
            /\ UNCHANGED << attempts, prompt, llmCalls >>
    /\ UNCHANGED << faults, request, emptyStreak, gate, intent, queryType, attemptHistory, result, resultQuery,
                    successfulQuery, aqlQuery, outcome, lastError, timers,
                    aborted, legacyFlags, dbState, dbLog, analysis, response >>

\* llm.invoke answers: the query is cleaned, recorded and submitted under a
\* 40-second timer; or llm.invoke throws and the outer catch ends the iteration
LLMAnswer ==
    /\ pc = "awaitLLM"
    /\ \/ /\ aqlQuery' = cleanAqlQuery(generation)
          /\ attemptHistory' = Append(attemptHistory, aqlQuery')
          /\ timers' = timers \cup {attempts}
          /\ aborted' = FALSE
          /\ Submit(aqlQuery')
          /\ pc' = "awaitDb"
          /\ UNCHANGED << outcome, lastError, faults, emptyStreak >>
       \/ /\ Throws
          /\ outcome' = "llmError"
          /\ emptyStreak' = 0
          /\ lastError' = ""
          /\ pc' = "loop"
          /\ UNCHANGED << aqlQuery, attemptHistory, timers, aborted, dbState, dbLog >>
    /\ UNCHANGED << request, gate, intent, queryType, attempts, result, resultQuery, successfulQuery,
                    prompt, legacyFlags, llmCalls, analysis, response >>

\* the setTimeout callback of the executor: controller.abort()
TimerFire ==
    /\ handler = "current"
    /\ pc = "awaitDb"
    /\ attempts \in timers
    /\ timers' = timers \ {attempts}
    /\ aborted' = TRUE
    /\ UNCHANGED << faults, request, emptyStreak, gate, pc, intent, queryType, loopState, prompt, outcome,
                    lastError, legacyFlags, dbState, dbLog, llmCalls, analysis,
                    response >>

\* the data store never answers the pending call
DbLost ==
    /\ dbState = "pending"
    /\ dbState' = "lost"
    /\ UNCHANGED << faults, request, emptyStreak, gate, pc, intent, queryType, loopState, prompt, outcome,
                    lastError, timers, aborted, legacyFlags, dbLog, llmCalls,
                    analysis, response >>

NeedsGeneralQuery(rows, n, int) ==
    /\ Len(rows) = 0
    /\ n >= 3
    /\ Len(int.keywords) > 0
    /\ int.filters.year # ""

\* the acceptance test with a length test that an empty result passes
AcceptsAnyLength(rows, question, int) ==
    isValidResult(rows, int.queryType, question, int) \/ Len(rows) >= 0

\* the acceptance test of the loop
Accepts(rows, question, int) ==
    isValidResult(rows, int.queryType, question, int) \/ Len(rows) > 0

\* the test of the rows of the attempt's query: break with the query, or go on
\* (a TypeError of isValidResult is caught by the inner catch)
Validate(rows, query) ==
    IF isValidResultThrows(rows, intent.queryType, userQuery, intent)
    THEN /\ outcome' = "error"
         /\ lastError' = TypeErrorMessage
         /\ pc' = "loop"
         /\ UNCHANGED successfulQuery
    ELSE IF Accepts(rows, userQuery, intent)
    THEN /\ successfulQuery' = query
         /\ outcome' = "rows"
         /\ lastError' = ""
         /\ pc' = "return"
    ELSE /\ outcome' = "empty"
         /\ lastError' = ""
         /\ pc' = "loop"
         /\ UNCHANGED successfulQuery

\* the inner catch: clearTimeout and on to the next attempt
CatchExecution(message) ==
    /\ timers' = timers \ {attempts}
    /\ outcome' = IF aborted THEN "timeout" ELSE "error"
    /\ lastError' = message
    /\ pc' = "loop"

\* db.query(aqlQuery) and cursor.all() answer, or throw
DbAnswer ==
    /\ pc = "awaitDb"
    /\ handler = "current"
    /\ dbState = "pending"
    /\ \/ \E rows \in DbRows :
             /\ result' = rows
             /\ resultQuery' = dbLog[Len(dbLog)]
             /\ emptyStreak' = IF Len(rows) = 0 THEN emptyStreak + 1 ELSE 0
             /\ timers' = timers \ {attempts}
             /\ UNCHANGED faults
             /\ IF NeedsGeneralQuery(rows, attempts, intent)
                THEN /\ attemptHistory' =
                            Append(attemptHistory,
                                   generateYearPatientFallbackQuery(intent.filters.year))
                     /\ Submit(generateYearPatientFallbackQuery(intent.filters.year))
                     /\ pc' = "awaitGeneral"
                     /\ UNCHANGED << successfulQuery, outcome, lastError >>
                ELSE /\ Validate(rows, aqlQuery)
                     /\ dbState' = "idle"
                     /\ UNCHANGED << attemptHistory, dbLog >>
       \/ \E error \in DbErrors :
             /\ Throws
             /\ CatchExecution(error)
             /\ emptyStreak' = 0
             /\ dbState' = "idle"
             /\ UNCHANGED << result, resultQuery, attemptHistory, successfulQuery, dbLog >>
    /\ UNCHANGED << request, gate, intent, queryType, attempts, aqlQuery, prompt,
                    aborted, legacyFlags, llmCalls, analysis, response >>

\* the year-only query run after an empty result answers, or throws
GeneralAnswer ==
    /\ pc = "awaitGeneral"
    /\ dbState = "pending"
    /\ dbState' = "idle"
    /\ \/ \E generalData \in DbRows :
             IF Len(generalData) > 0
             THEN /\ result' = generalData
                  /\ resultQuery' = dbLog[Len(dbLog)]
                  /\ UNCHANGED faults
                  /\ successfulQuery' = LastOf(attemptHistory)
                  /\ outcome' = "rows"
                  /\ lastError' = ""
                  /\ pc' = "return"
                  /\ UNCHANGED timers
             ELSE /\ Validate(result, aqlQuery)
                  /\ UNCHANGED << result, resultQuery, timers, faults >>
       \/ \E error \in DbErrors :
             /\ Throws
             /\ CatchExecution(error)
             /\ UNCHANGED << result, resultQuery, successfulQuery >>
    /\ UNCHANGED << request, emptyStreak, gate, intent, queryType, attempts, attemptHistory, aqlQuery,
                    prompt, aborted, legacyFlags, dbLog, llmCalls, analysis,
                    response >>

\* return { query: successfulQuery, result, attempts, attemptHistory }: the
\* other locals of the executor go out of scope
Return ==
    /\ pc = "return"
    /\ aqlQuery' = ""
    /\ prompt' = NoPrompt
    /\ aborted' = FALSE
    /\ pc' = "process"
    /\ UNCHANGED << faults, request, emptyStreak, gate, intent, queryType, attempts, attemptHistory, result, resultQuery,
                    successfulQuery, outcome, lastError, timers, legacyFlags,
                    dbState, dbLog, llmCalls, analysis, response >>

(***************************************************************************)
(* processQueryResults (app/utils/resultAnalyzer.ts).                      *)
(***************************************************************************)
\* the attempt limit processQueryResults tests before an improved query
attemptLimit == 8

OrElse(text, fallback) == IF text # "" THEN text ELSE fallback

\* the answers given without analysis, and the start of analyzeQueryResults
Process ==
    /\ pc = "process"
    /\ IF Len(result) = 0
       THEN /\ Respond(200, "", successfulQuery, result, NoResultsConclusion,
                       attempts, attemptHistory)
            /\ UNCHANGED << llmCalls, analysis >>
       ELSE IF /\ intent.queryType = "count"
               /\ \/ includes(toLowerCase(successfulQuery), "return length(")
                  \/ includes(toLowerCase(successfulQuery), "return count(")
               /\ IsSingleNumber(result)
       THEN /\ Respond(200, "", successfulQuery, result,
                       CountConclusion(result[1].num, intent, TRUE),
                       attempts, attemptHistory)
            /\ UNCHANGED << llmCalls, analysis >>
       ELSE IF GenderDistributionThrows(result)
       THEN /\ RespondError(TypeErrorMessage)
            /\ UNCHANGED << llmCalls, analysis >>
       ELSE IF IsGenderDistribution(result)
       THEN /\ Respond(200, "", successfulQuery, result,
                       DistributionConclusion(result[1]), attempts, attemptHistory)
            /\ UNCHANGED << llmCalls, analysis >>
       ELSE LET direct == analyzeWithoutLLM(userQuery, result, intent)
            IN  IF direct.verdict = "llm"
                THEN /\ llmCalls' = llmCalls + 1
                     /\ pc' = "awaitAnalysis"
                     /\ UNCHANGED << analysis, response >>
                ELSE IF direct.verdict = "throw"
                THEN /\ RespondError(TypeErrorMessage)
                     /\ UNCHANGED << llmCalls, analysis >>
                ELSE /\ analysis' = direct
                     /\ pc' = "analysed"
                     /\ UNCHANGED << llmCalls, response >>
    /\ UNCHANGED << faults, request, emptyStreak, gate, intent, queryType, loopState, prompt, outcome,
                    lastError, timers, aborted, legacyFlags, dbState, dbLog >>

\* llm.invoke(prompt) of analyzeQueryResults answers, or throws
AnalysisAnswer ==
    /\ pc = "awaitAnalysis"
    /\ \E answer \in AnalysisAnswers :
          /\ IF answer.kind = "throw" THEN Throws ELSE UNCHANGED faults
          /\ analysis' =
                 IF answer.kind = "json"
                 THEN [verdict |-> "done", isValid |-> answer.isValid,
                       conclusion |-> "The results answer the question.",
                       improvedQuery |-> answer.improvedQuery]
                 \* the fallback when the service call or the parsing of its
                 \* reply fails
                 ELSE [verdict |-> "done", isValid |-> Len(result) > 0,
                       conclusion |-> IF Len(result) > 0
                                      THEN ReturnedResults(Len(result))
                                      ELSE NoResultsConclusion,
                       improvedQuery |-> ""]
    /\ pc' = "analysed"
    /\ UNCHANGED << request, emptyStreak, gate, intent, queryType, loopState, prompt, outcome,
                    lastError, timers, aborted, legacyFlags, dbState, dbLog,
                    llmCalls, response >>

\* the test of the improved query without the attempt limit
RunsImprovedUnlimited(improvedQuery, n) == improvedQuery # ""

\* if (analysis.improvedQuery && attempts < 8)
RunsImproved(improvedQuery, n) == improvedQuery # "" /\ n < attemptLimit

\* the use of the analysis: answer, or run the improved query
Analysed ==
    /\ pc = "analysed"
    /\ IF analysis.isValid
       THEN /\ Respond(200, "", successfulQuery, result, analysis.conclusion,
                       attempts, attemptHistory)
            /\ UNCHANGED << attemptHistory, dbState, dbLog >>
       ELSE IF RunsImproved(analysis.improvedQuery, attempts)
       THEN /\ attemptHistory' =
                   Append(attemptHistory, cleanAqlQuery(analysis.improvedQuery))
            /\ Submit(cleanAqlQuery(analysis.improvedQuery))
            /\ pc' = "awaitImproved"
            /\ UNCHANGED response
       ELSE /\ Respond(200, "", successfulQuery, result,
                       OrElse(analysis.conclusion, ReturnedResults(Len(result))),
                       attempts, attemptHistory)
            /\ UNCHANGED << attemptHistory, dbState, dbLog >>
    /\ UNCHANGED << faults, request, emptyStreak, gate, intent, queryType, attempts, result, resultQuery, successfulQuery,
                    aqlQuery, prompt, outcome, lastError, timers, aborted,
                    legacyFlags, llmCalls, analysis >>

RECURSIVE SumCounts(_)
SumCounts(rows) ==
    IF Len(rows) = 0 THEN 0 ELSE rows[1].fields.count[1] + SumCounts(Tail(rows))

RaceConclusion(rows) ==
    LET shown == SubSeq(rows, 1, IF Len(rows) < 3 THEN Len(rows) ELSE 3)
    IN  "Found " \o ToString(Len(rows)) \o " race categories with a total of "
        \o ToString(SumCounts(rows)) \o " patients. Top categories: "
        \o join([i \in 1..Len(shown) |->
                    shown[i].fields.race[1] \o ": " \o ToString(shown[i].fields.count[1])
                    \o " (" \o Percent(shown[i].fields.count[1], SumCounts(rows)) \o "%)"],
                ", ")
        \o "."

MayNotAnswer(n) ==
    "The query returned " \o ToString(n)
    \o " results, but they may not fully answer your question."

\* the improved query answers, or throws (a null first row throws as well)
ImprovedAnswer ==
    /\ pc = "awaitImproved"
    /\ dbState = "pending"
    /\ dbState' = "idle"
    /\ \/ UNCHANGED faults /\ \E improvedData \in DbRows :
             IF IsSingleNumber(improvedData)
             THEN Respond(200, "", LastOf(attemptHistory), improvedData,
                          CountConclusion(improvedData[1].num, intent, FALSE),
                          attempts + 1, attemptHistory)
             ELSE IF Len(improvedData) > 0 /\ IsNull(improvedData[1])
             THEN Respond(200, "", successfulQuery, result,
                          OrElse(analysis.conclusion, MayNotAnswer(Len(result))),
                          attempts, attemptHistory)
             ELSE IF /\ Len(improvedData) > 0
                     /\ Has(improvedData[1], "race")
                     /\ Has(improvedData[1], "count")
             THEN Respond(200, "", LastOf(attemptHistory), improvedData,
                          RaceConclusion(improvedData), attempts + 1, attemptHistory)
             ELSE Respond(200, "", LastOf(attemptHistory), improvedData,
                          OrElse(analysis.conclusion,
                                 "Found " \o ToString(Len(improvedData))
                                 \o " results with the improved query."),
                          attempts + 1, attemptHistory)
       \/ Throws /\ \E error \in DbErrors :
             Respond(200, "", successfulQuery, result,
                     OrElse(analysis.conclusion, MayNotAnswer(Len(result))),
                     attempts, attemptHistory)
    /\ UNCHANGED << request, emptyStreak, gate, intent, queryType, loopState, prompt, outcome,
                    lastError, timers, aborted, legacyFlags, dbLog, llmCalls,
                    analysis >>

(***************************************************************************)
(* The legacy handler (app/api/query/route.ts): its helpers.               *)
(***************************************************************************)
determineQueryType(queryText) ==
    LET lq == toLowerCase(queryText)
    IN  IF \/ startsWith(lq, "how many")
           \/ includes(lq, "count")
           \/ includes(lq, "most common")
           \/ includes(lq, "distribution")
        THEN "count"
        ELSE IF \/ startsWith(lq, "list")
                \/ startsWith(lq, "show")
                \/ startsWith(lq, "get")
                \/ includes(lq, "find")
                \/ includes(lq, "patients with")
                \/ /\ includes(lq, "patient")
                   /\ \/ includes(lq, "diabetes")
                      \/ includes(lq, "condition")
                      \/ includes(lq, "disease")
        THEN "data"
        ELSE "analysis"

isComplexRelationshipQuery(query) ==
    LET lq == toLowerCase(query)
    IN  /\ query # ""
        /\ \/ includes(lq, "patient") /\ includes(lq, "condition")
           \/ /\ includes(lq, "diabetes")
              /\ (includes(lq, "patient") \/ includes(lq, "birthdate"))
           \/ includes(lq, "disease") /\ includes(lq, "patient")
           \/ includes(lq, "year") /\ includes(lq, "condition")
           \/ yearMatches(lq) # "" /\ includes(lq, "condition")

\* the staged pattern: conditions first, then encounters, then patients, the
\* year filter last
StagedQuery(conditionTerm, patientFilters) ==
    "LET entity = \"" \o conditionTerm
    \o "\" LET matching_conditions = (FOR doc IN MedGraph_node FILTER doc.type == \"condition\" FILTER LOWER(doc.DESCRIPTION) LIKE CONCAT(\"%\", LOWER(entity), \"%\") LIMIT 10000 RETURN doc) FOR condition IN matching_conditions LET encounter_edges = (...) FILTER LENGTH(encounter_edges) > 0 LET encounter = DOCUMENT(encounter_edges[0]._from) LET patient_edges = (...) FILTER LENGTH(patient_edges) > 0 LET patient = DOCUMENT(patient_edges[0]._from) FILTER patient.type == 'patient' "
    \o patientFilters
    \o " LIMIT 15 RETURN DISTINCT { id: patient.ID, gender: patient.GENDER, birthdate: patient.BIRTHDATE, race: patient.RACE, condition: condition.DESCRIPTION }"

YearFilter(question) ==
    IF yearMatches(question) # ""
    THEN "FILTER CONTAINS(SUBSTRING(patient.BIRTHDATE, 0, 4), \"" \o yearMatches(question) \o "\")"
    ELSE ""

\* s.replace(/[^\w]/g, "")
RECURSIVE WordCharsOf(_)
WordCharsOf(s) ==
    IF Len(s) = 0 THEN ""
    ELSE (IF IsWordChar(CharAt(s, 1)) THEN CharAt(s, 1) ELSE "")
         \o WordCharsOf(SubSeq(s, 2, Len(s)))

\* s.split(/\s+/)[0] of a trimmed text
FirstWord(s) ==
    LET spaces == {i \in 1..Len(s) : IsSpace(CharAt(s, i))}
    IN  IF spaces = {} THEN s
        ELSE SubSeq(s, 1, (CHOOSE i \in spaces : \A j \in spaces : i <= j) - 1)

\* the condition term of the optimized pattern, "" when none is recognized
OptimizedConditionTerm(lq) ==
    IF includes(lq, "diabetes") THEN "diabetes"
    ELSE IF includes(lq, "hypertension") THEN "hypertension"
    ELSE IF includes(lq, "otitis") THEN "otitis"
    ELSE IF includes(lq, "asthma") THEN "asthma"
    ELSE IF includes(lq, "heart disease") \/ includes(lq, "cardiac") THEN "heart"
    ELSE IF /\ includes(lq, "condition")
            /\ ~includes(lq, "count")
            /\ ~startsWith(lq, "how many")
    THEN LET afterCondition == trim(SecondBlock(lq, "condition"))
         IN  OrElse(WordCharsOf(FirstWord(afterCondition)), "condition")
    ELSE ""

OptimizedGenderFilter(lq) ==
    IF includes(lq, " male") \/ includes(lq, "males")
    THEN "FILTER patient.GENDER == 'M'"
    ELSE IF includes(lq, "female") \/ includes(lq, "females")
    THEN "FILTER patient.GENDER == 'F'"
    ELSE ""

OptimizedRaceFilter(lq) ==
    IF RaceOf(lq) # ""
    THEN "FILTER CONTAINS(LOWER(patient.RACE), \"" \o RaceOf(lq) \o "\")"
    ELSE ""

\* "" stands for null
generateOptimizedQueryForCommonPatterns(question) ==
    LET lq == toLowerCase(question)
    IN  IF OptimizedConditionTerm(lq) = "" THEN ""
        ELSE StagedQuery(OptimizedConditionTerm(lq),
                         YearFilter(question) \o " " \o OptimizedGenderFilter(lq)
                         \o " " \o OptimizedRaceFilter(lq))

GenderListQuery ==
    "FOR node IN MedGraph_node FILTER node.type == 'patient' AND (node.GENDER == 'M' OR node.GENDER == 'F') SORT node.BIRTHDATE DESC LIMIT 15 RETURN { birthdate: node.BIRTHDATE, gender: node.GENDER, race: node.RACE }"

PatientListQuery(limit) ==
    "FOR node IN MedGraph_node FILTER node.type == 'patient' SORT node.BIRTHDATE DESC LIMIT "
    \o limit \o " RETURN { id: node.ID, birthdate: node.BIRTHDATE, gender: node.GENDER, race: node.RACE }"

\* the query POST falls back to when the first llm.invoke throws
InitialFallbackQuery(question) ==
    LET lq == toLowerCase(question)
    IN  IF isComplexRelationshipQuery(question)
        THEN IF generateOptimizedQueryForCommonPatterns(question) # ""
             THEN generateOptimizedQueryForCommonPatterns(question)
             ELSE StagedQuery(IF includes(lq, "diabetes") THEN "diabetes"
                              ELSE IF includes(lq, "otitis") THEN "otitis"
                              ELSE "condition",
                              YearFilter(question))
        ELSE IF includes(lq, "gender") THEN GenderListQuery
        ELSE PatientListQuery("15")

\* the staged query the loop switches to after a timeout
TimeoutQuery(question) ==
    LET lq == toLowerCase(question)
    IN  StagedQuery(IF includes(lq, "diabetes") THEN "diabetes"
                    ELSE IF includes(lq, "otitis") THEN "otitis"
                    ELSE IF includes(lq, "hypertension") THEN "hypertension"
                    ELSE IF includes(lq, "asthma") THEN "asthma"
                    ELSE "condition",
                    YearFilter(question))

HasConditionWord(lq) ==
    \/ includes(lq, "condition")
    \/ includes(lq, "diabetes")
    \/ includes(lq, "otitis")
    \/ includes(lq, "disease")

\* generateBetterQuery answers without the generation service
BetterQueryIsDirect(originalQuery) ==
    LET lq == toLowerCase(originalQuery)
    IN  /\ HasConditionWord(lq)
        /\ yearMatches(lq) # ""
        /\ generateOptimizedQueryForCommonPatterns(originalQuery) # ""

\* the query generateBetterQuery returns when llm.invoke throws
BetterFallbackQuery(originalQuery) ==
    LET lq == toLowerCase(originalQuery)
    IN  IF HasConditionWord(lq)
        THEN StagedQuery(IF includes(lq, "diabetes") THEN "diabetes"
                         ELSE IF includes(lq, "otitis") THEN "otitis"
                         ELSE IF includes(lq, "hypertension") THEN "hypertension"
                         ELSE "condition",
                         YearFilter(originalQuery))
        ELSE IF includes(lq, "gender") THEN GenderListQuery
        ELSE IF yearMatches(originalQuery) # ""
        THEN "FOR node IN MedGraph_node FILTER node.type == 'patient' AND CONTAINS(node.BIRTHDATE, '"
             \o yearMatches(originalQuery)
             \o "') SORT node.BIRTHDATE DESC LIMIT 10 RETURN { id: node.ID, birthdate: node.BIRTHDATE, gender: node.GENDER }"
        ELSE PatientListQuery("10")

\* JSON.stringify(Object.values(item)).toLowerCase().includes(year)
ValuesInclude(item, year) ==
    \/ \E k \in {"id", "gender", "birthdate", "race", "condition"} :
          Has(item, k) /\ includes(toLowerCase(item.fields[k][1]), year)
    \/ \E k \in {"count", "value", "male", "female"} :
          Has(item, k) /\ includes(ToString(item.fields[k][1]), year)

LegacyBranch(results, type, originalQuery) ==
    LET lq == toLowerCase(originalQuery)
    IN  IF Len(results) = 0 THEN "empty"
        ELSE IF type = "data" /\ includes(lq, "patient") /\ includes(lq, "gender")
        THEN "gender"
        ELSE IF type = "data" /\ includes(lq, "patient") /\ includes(lq, "birth")
        THEN "birthdate"
        ELSE IF includes(lq, "condition") \/ includes(lq, "diabetes") \/ includes(lq, "otitis")
        THEN "condition"
        ELSE IF yearMatches(originalQuery) # "" THEN "year"
        ELSE IF type = "count" /\ Len(results) = 1 /\ IsNumber(results[1]) THEN "number"
        ELSE IF type = "count" /\ Len(results) = 1 /\ IsObject(results[1]) THEN "object"
        ELSE "default"

ValidGender(item) == Has(item, "gender") /\ item.fields.gender[1] \in {"M", "F"}

\* isValidResult of the legacy route
legacyIsValidResult(results, type, originalQuery) ==
    LET branch == LegacyBranch(results, type, originalQuery)
    IN  CASE branch = "empty" -> FALSE
          [] branch = "gender" -> Some([i \in DOMAIN results |-> ValidGender(results[i])])
          [] branch = "birthdate" -> Some([i \in DOMAIN results |-> TruthyStr(results[i], "birthdate")])
          [] branch = "condition" -> Some([i \in DOMAIN results |-> TruthyStr(results[i], "condition")])
          [] branch = "year" ->
                Some([i \in DOMAIN results |-> ValuesInclude(results[i], yearMatches(originalQuery))])
          [] branch = "number" -> TRUE
          [] branch = "object" -> \E k \in Keys(results[1]) : CountKey(k)
          [] OTHER -> TRUE

\* it ends in a TypeError: a property of a null row is read
legacyIsValidResultThrows(results, type, originalQuery) ==
    LET branch == LegacyBranch(results, type, originalQuery)
    IN  CASE branch = "gender" -> SomeThrows(results, [i \in DOMAIN results |-> ValidGender(results[i])])
          [] branch = "birthdate" -> SomeThrows(results, [i \in DOMAIN results |-> TruthyStr(results[i], "birthdate")])
          [] branch = "condition" -> SomeThrows(results, [i \in DOMAIN results |-> TruthyStr(results[i], "condition")])
          [] branch = "year" ->
                SomeThrows(results, [i \in DOMAIN results |-> ValuesInclude(results[i], yearMatches(originalQuery))])
          [] branch = "object" -> IsNull(results[1])
          [] OTHER -> FALSE

\* the failure reason the loop gives generateBetterQuery for rejected rows
LegacyErrorMessage(rows, type, question) ==
    LET lq == toLowerCase(question)
    IN  "Results don't match expectations. "
        \o (IF type = "data" /\ includes(lq, "gender")
            THEN "Gender values should be 'M' or 'F', but got invalid values or nulls."
            ELSE IF yearMatches(question) # ""
            THEN "Results don't contain the requested year " \o yearMatches(question) \o "."
            ELSE IF includes(lq, "condition") \/ includes(lq, "diabetes") \/ includes(lq, "disease")
            THEN "Results don't contain the expected condition information."
            ELSE IF Len(rows) = 0 THEN "No results returned."
            ELSE "Results may not be relevant to the question.")

UnableConclusion ==
    "Unable to generate a working query after multiple attempts. Please try rephrasing your question."

\* the conclusion the legacy handler writes for the final rows
LegacyConclusion(rows, question) ==
    LET lq == toLowerCase(question)
        first == rows[1]
    IN  IF Len(rows) = 0
        THEN "The query returned no results. There may not be any data matching your criteria."
        ELSE IF IsSingleNumber(rows)
        THEN "The count is " \o ToString(first.num) \o "."
        ELSE IF Len(rows) = 1 /\ IsObject(first)
        THEN IF TruthyStr(first, "race") /\ TruthyNum(first, "count")
             THEN "The most common race is \"" \o first.fields.race[1] \o "\" with "
                  \o ToString(first.fields.count[1]) \o " patients."
             ELSE IF TruthyNum(first, "male") /\ TruthyNum(first, "female")
             THEN "There are " \o ToString(first.fields.male[1]) \o " male patients ("
                  \o Percent(first.fields.male[1], first.fields.male[1] + first.fields.female[1])
                  \o "%) and " \o ToString(first.fields.female[1]) \o " female patients ("
                  \o Percent(first.fields.female[1], first.fields.male[1] + first.fields.female[1])
                  \o "%)."
             ELSE "The analysis returned a single result with the requested information."
        ELSE IF includes(lq, "condition") \/ includes(lq, "diabetes") \/ includes(lq, "disease")
        THEN IF yearMatches(question) # ""
             THEN "The query returned " \o ToString(Len(rows))
                  \o " patients with the specified condition born in "
                  \o yearMatches(question) \o "."
             ELSE "The query returned " \o ToString(Len(rows))
                  \o " patients with the specified condition."
        ELSE "The query returned " \o ToString(Len(rows))
             \o " results that match your criteria."

(***************************************************************************)
(* The legacy handler: POST after the gate.                                *)
(***************************************************************************)
legacyMaxAttempts == 8

\* determineQueryType, the pattern check and the first llm.invoke
LegacyStart ==
    /\ pc = "legacyStart"
    /\ queryType' = determineQueryType(userQuery)
    /\ IF generateOptimizedQueryForCommonPatterns(userQuery) # ""
       THEN /\ aqlQuery' = generateOptimizedQueryForCommonPatterns(userQuery)
            /\ attemptHistory' = Append(attemptHistory, aqlQuery')
            /\ useOptimizedPattern' = isComplexRelationshipQuery(userQuery)
            /\ pc' = "legacyLoop"
            /\ UNCHANGED << prompt, llmCalls >>
       ELSE /\ prompt' = [attempt |-> 1, previousQuery |-> "", errorMessage |-> "", guidance |-> "rules"]
            /\ llmCalls' = llmCalls + 1
            /\ pc' = "legacyInitial"
            /\ UNCHANGED << aqlQuery, attemptHistory, useOptimizedPattern >>
    /\ UNCHANGED << faults, request, emptyStreak, gate, intent, attempts, result, resultQuery, successfulQuery, outcome,
                    lastError, timers, aborted, queryTimedOut, dbState, dbLog,
                    analysis, response >>

\* the first llm.invoke answers, or throws and a fixed query is taken
LegacyInitialAnswer ==
    /\ pc = "legacyInitial"
    /\ \/ aqlQuery' = cleanAqlQuery(generation) /\ UNCHANGED faults
       \/ aqlQuery' = InitialFallbackQuery(userQuery) /\ Throws
    /\ attemptHistory' = Append(attemptHistory, aqlQuery')
    /\ useOptimizedPattern' = isComplexRelationshipQuery(userQuery)
    /\ pc' = "legacyLoop"
    /\ UNCHANGED << request, emptyStreak, gate, intent, queryType, attempts, result, resultQuery, successfulQuery,
                    prompt, outcome, lastError, timers, aborted, queryTimedOut,
                    dbState, dbLog, llmCalls, analysis, response >>

\* the loop test, attempts++, setTimeout(60000) and db.query(aqlQuery)
LegacyLoopHead ==
    /\ pc = "legacyLoop"
    /\ IF attempts < legacyMaxAttempts
       THEN /\ attempts' = attempts + 1
            /\ timers' = timers \cup {attempts'}
            /\ Submit(aqlQuery)
            /\ pc' = "legacyDb"
       ELSE /\ pc' = "legacyAfter"
            /\ UNCHANGED << attempts, timers, dbState, dbLog >>
    /\ UNCHANGED << faults, request, emptyStreak, gate, intent, queryType, attemptHistory, result, resultQuery,
                    successfulQuery, aqlQuery, prompt, outcome, lastError, aborted,
                    legacyFlags, llmCalls, analysis, response >>

\* a setTimeout callback of the legacy loop: queryTimedOut = true.  The timers
\* run in the order they were armed.
LegacyTimerFire ==
    /\ handler = "legacy"
    /\ pc \in {"legacyDb", "legacyBetter", "legacyFinal"}
    /\ timers # {}
    /\ timers' = timers \ {CHOOSE k \in timers : \A j \in timers : k <= j}
    /\ queryTimedOut' = TRUE
    /\ UNCHANGED << faults, request, emptyStreak, gate, pc, intent, queryType, loopState, prompt, outcome,
                    lastError, aborted, useOptimizedPattern, dbState, dbLog,
                    llmCalls, analysis, response >>

\* generateBetterQuery(userQuery, aqlQuery, errorMessage, attempts): the fixed
\* pattern at once, or llm.invoke
BetterQuery(errorMessage) ==
    IF BetterQueryIsDirect(userQuery)
    THEN /\ aqlQuery' = generateOptimizedQueryForCommonPatterns(userQuery)
         /\ attemptHistory' = Append(attemptHistory, aqlQuery')
         /\ pc' = "legacyLoop"
         /\ UNCHANGED << prompt, llmCalls >>
    ELSE /\ prompt' = [attempt |-> attempts, previousQuery |-> aqlQuery,
                       errorMessage |-> errorMessage, guidance |-> "rules"]
         /\ llmCalls' = llmCalls + 1
         /\ pc' = "legacyBetter"
         /\ UNCHANGED << aqlQuery, attemptHistory >>

\* db.query(aqlQuery) of the legacy loop answers, or throws
LegacyDbAnswer ==
    /\ pc = "legacyDb"
    /\ dbState = "pending"
    /\ dbState' = "idle"
    /\ \/ \E rows \in DbRows :
             /\ result' = rows
             /\ resultQuery' = dbLog[Len(dbLog)]
             /\ UNCHANGED faults
             /\ timers' = timers \ {attempts}
             /\ IF legacyIsValidResultThrows(rows, queryType, userQuery)
                THEN /\ outcome' = "error"
                     /\ lastError' = TypeErrorMessage
                     /\ BetterQuery(TypeErrorMessage)
                     /\ UNCHANGED successfulQuery
                ELSE IF legacyIsValidResult(rows, queryType, userQuery)
                THEN /\ successfulQuery' = aqlQuery
                     /\ outcome' = "rows"
                     /\ lastError' = ""
                     /\ pc' = "legacyAfter"
                     /\ UNCHANGED << aqlQuery, attemptHistory, prompt, llmCalls >>
                ELSE /\ outcome' = "invalid"
                     /\ lastError' = ""
                     /\ BetterQuery(LegacyErrorMessage(rows, queryType, userQuery))
                     /\ UNCHANGED successfulQuery
             /\ UNCHANGED useOptimizedPattern
       \/ \E error \in DbErrors :
             /\ Throws
             /\ lastError' = error
             /\ IF queryTimedOut
                THEN /\ useOptimizedPattern' = TRUE
                     /\ aqlQuery' = TimeoutQuery(userQuery)
                     /\ attemptHistory' = Append(attemptHistory, aqlQuery')
                     /\ outcome' = "timeout"
                     /\ pc' = "legacyLoop"
                     /\ UNCHANGED << prompt, llmCalls >>
                ELSE /\ outcome' = "error"
                     /\ BetterQuery(error)
                     /\ UNCHANGED useOptimizedPattern
             /\ UNCHANGED << result, resultQuery, successfulQuery, timers >>
    /\ UNCHANGED << request, emptyStreak, gate, intent, queryType, attempts, aborted, queryTimedOut,
                    dbLog, analysis, response >>

\* llm.invoke of generateBetterQuery answers, or throws and a fixed query is
\* returned
LegacyBetterAnswer ==
    /\ pc = "legacyBetter"
    /\ \/ aqlQuery' = cleanAqlQuery(generation) /\ UNCHANGED faults
       \/ aqlQuery' = BetterFallbackQuery(userQuery) /\ Throws
    /\ attemptHistory' = Append(attemptHistory, aqlQuery')
    /\ pc' = "legacyLoop"
    /\ UNCHANGED << request, emptyStreak, gate, intent, queryType, attempts, result, resultQuery, successfulQuery,
                    prompt, outcome, lastError, timers, aborted, legacyFlags,
                    dbState, dbLog, llmCalls, analysis, response >>

\* if (!successfulQuery && attempts >= 1): the last query is run once more
LegacyAfter ==
    /\ pc = "legacyAfter"
    /\ IF successfulQuery = "" /\ attempts >= 1
       THEN /\ successfulQuery' = aqlQuery
            /\ Submit(aqlQuery)
            /\ pc' = "legacyFinal"
       ELSE /\ pc' = "legacyConclude"
            /\ UNCHANGED << successfulQuery, dbState, dbLog >>
    /\ UNCHANGED << faults, request, emptyStreak, gate, intent, queryType, attempts, attemptHistory, result, resultQuery,
                    aqlQuery, prompt, outcome, lastError, timers, aborted,
                    legacyFlags, llmCalls, analysis, response >>

\* the last execution answers, or throws and the handler gives up
LegacyFinalAnswer ==
    /\ pc = "legacyFinal"
    /\ dbState = "pending"
    /\ dbState' = "idle"
    /\ \/ \E rows \in DbRows :
             /\ result' = rows
             /\ resultQuery' = dbLog[Len(dbLog)]
             /\ lastError' = ""
             /\ pc' = "legacyConclude"
             /\ UNCHANGED << response, faults >>
       \/ \E error \in DbErrors :
             /\ Throws
             /\ lastError' = error
             /\ Respond(200, "", aqlQuery, << >>, UnableConclusion, attempts,
                        attemptHistory)
             /\ UNCHANGED << result, resultQuery >>
    /\ UNCHANGED << request, emptyStreak, gate, intent, queryType, attempts, attemptHistory,
                    successfulQuery, aqlQuery, prompt, outcome, timers, aborted,
                    legacyFlags, dbLog, llmCalls, analysis >>

\* the conclusion and the response
LegacyConclude ==
    /\ pc = "legacyConclude"
    /\ IF Len(result) = 1 /\ IsNull(result[1])   \* result[0].race of a null row
       THEN RespondError(TypeErrorMessage)
       ELSE Respond(200, "", successfulQuery, result,
                    LegacyConclusion(result, userQuery), attempts, attemptHistory)
    /\ UNCHANGED << faults, request, emptyStreak, gate, intent, queryType, loopState, prompt, outcome,
                    lastError, timers, aborted, legacyFlags, dbState, dbLog,
                    llmCalls, analysis >>

Next ==
    \/ Receive
    \/ GateAnswer
    \/ Gate
    \/ AnalyzeIntent
    \/ DirectCountAnswer
    \/ Execute
    \/ DirectYearAnswer
    \/ LoopHead
    \/ LLMAnswer
    \/ TimerFire
    \/ DbLost
    \/ DbAnswer
    \/ GeneralAnswer
    \/ Return
    \/ Process
    \/ AnalysisAnswer
    \/ Analysed
    \/ ImprovedAnswer
    \/ LegacyStart
    \/ LegacyInitialAnswer
    \/ LegacyLoopHead
    \/ LegacyTimerFire
    \/ LegacyDbAnswer
    \/ LegacyBetterAnswer
    \/ LegacyAfter
    \/ LegacyFinalAnswer
    \/ LegacyConclude

Spec == Init /\ [][Next]_vars

\* a timer that is armed fires
FairSpec == Spec /\ WF_vars(TimerFire) /\ WF_vars(LegacyTimerFire)

(***************************************************************************)
(* cleanAqlQuery on its own: the texts a generation can be made of.        *)
(***************************************************************************)
MaxTokens == 3

\* the tokens: language prefixes, the fence, a language identifier line and a
\* query
CleanInit ==
    /\ handler = "current"
    /\ userQuery = ""
    /\ generation \in
          \* the texts made of one to MaxTokens tokens
          LET CleanTokens == { "aql ", "sql ", "AQL: ", "SQL:", "~~~", "aql\n", "RETURN 1" }
          IN  UNION { { join(tokens, "") : tokens \in [1..n -> CleanTokens] } :
                      n \in 1..MaxTokens }
    /\ pc = "clean"
    /\ gate = NoGate
    /\ intent = analyzeQueryIntent("")
    /\ queryType = ""
    /\ attempts = 0
    /\ attemptHistory = << >>
    /\ result = << >>
    /\ resultQuery = ""
    /\ successfulQuery = ""
    /\ aqlQuery = ""
    /\ prompt = NoPrompt
    /\ outcome = "none"
    /\ lastError = ""
    /\ timers = {}
    /\ aborted = FALSE
    /\ queryTimedOut = FALSE
    /\ useOptimizedPattern = FALSE
    /\ dbState = "idle"
    /\ dbLog = << >>
    /\ llmCalls = 0
    /\ faults = 0
    /\ emptyStreak = 0
    /\ analysis = NoAnalysis
    /\ response = NoResponse
    /\ calls = << >>
    /\ store = << >>
    /\ now = 0

\* const aqlQuery = cleanAqlQuery(generation)
Clean ==
    /\ pc = "clean"
    /\ aqlQuery' = cleanAqlQuery(generation)
    /\ pc' = "cleaned"
    /\ UNCHANGED << faults, request, emptyStreak, gate, intent, queryType, attempts,
                    attemptHistory, result, resultQuery, successfulQuery, prompt, outcome,
                    lastError, timers, aborted, legacyFlags, dbState, dbLog,
                    llmCalls, analysis, response >>

CleanSpec == CleanInit /\ [][Clean]_vars

(***************************************************************************)
(* Properties.                                                             *)
(***************************************************************************)
\* inside executeQueryWithLLM
ExecutorPositions ==
    { "execute", "directYear", "loop", "awaitLLM", "awaitDb", "awaitGeneral", "return" }

\* inside the while loop of the legacy POST
InLegacyLoop == handler = "legacy" /\ pc \in {"legacyLoop", "legacyDb", "legacyBetter"}

\* the loop ended on the attempt limit, no result accepted
Exhausted ==
    /\ pc = "done"
    /\ response.status = 200
    /\ response.attempts = maxAttempts
    /\ outcome \notin {"none", "rows"}

\* a list of more than one record, none of them a number or a count
PlainRecordList(rows) ==
    /\ Len(rows) > 1
    /\ \A i \in 1..Len(rows) :
          /\ IsObject(rows[i])
          /\ \A k \in Keys(rows[i]) : k \notin {"count", "value", "male", "female"}

\* C1: the refinement loop of either handler runs at most 8 iterations, and
\* the attempt counter counts them: it is never above 8, in the executor's loop
\* it equals the number of generation calls made, in the legacy loop the number
\* of executions started.
C1_LoopBound ==
    /\ attempts \in 0..maxAttempts
    /\ (handler = "current" /\ pc \in {"loop", "awaitLLM", "awaitDb", "awaitGeneral"})
          => llmCalls = attempts
    /\ InLegacyLoop => Len(dbLog) = attempts

\* C1: the loop of either handler has run its eighth iteration without an
\* accepted result and has met its test again
C1_Witness ==
    /\ pc \in {"return", "legacyAfter"}
    /\ attempts = maxAttempts
    /\ successfulQuery = ""

\* C2: when the data-store call of an attempt of the loop never returns,
\* the request still ends with a response
C2_LostCallStillAnswered ==
    (dbState = "lost" /\ pc \in {"awaitDb", "legacyDb"}) ~> (pc = "done")

\* C3: the attemptHistory of every response has at most 8 entries
C3_HistoryAtMostEight ==
    pc = "done" => Len(response.attemptHistory) <= maxAttempts

\* C4: for a count intent, isValidResult rejects the rows of an attempt
\* whenever they are a list of more than one plain record
C4_CountRejectsRecordList ==
    (/\ handler = "current"
     /\ pc \in ExecutorPositions
     /\ intent.queryType = "count"
     /\ PlainRecordList(result))
    => ~isValidResult(result, intent.queryType, userQuery, intent)

\* C5: the result returned for a count question with counting phrasing is
\* never a list of more than one plain record
C5_CountAnswerIsNoRecordList ==
    (/\ handler = "current"
     /\ pc = "done"
     /\ response.status = 200
     /\ IsDirectCount(userQuery, intent))
    => ~PlainRecordList(response.result)

\* C6: a response given after the attempts ran out carries the text of the
\* query executed last, not an empty text
C6_ExhaustionReturnsLastQuery ==
    Exhausted => response.query # "" /\ response.query = LastOf(dbLog)

\* C7: a response given after the attempts ran out, the last execution
\* having thrown, concludes that the question could not be answered and
\* should be rephrased
C7_LastErrorAsksToRephrase ==
    (Exhausted /\ lastError \in DbErrors) => response.conclusion = UnableConclusion

C9_PromptCarriesErrorText ==
    (/\ pc \in {"awaitLLM", "legacyBetter"}
     /\ outcome = "error"
     /\ lastError \in DbErrors)
    => prompt.errorMessage = lastError

\* C10: the attempt that follows a timed-out attempt is produced under the
\* staged-join directive: the executor's prompt carries it, the legacy loop
\* runs the staged query
C10_TimeoutForcesStagedJoin ==
    /\ (pc = "awaitLLM" /\ outcome = "timeout") => prompt.errorMessage =
           "Previous query timed out or resulted in an error. Please use the optimized pattern from example #11 with staged processing for better performance."
    /\ (pc = "legacyDb" /\ outcome = "timeout") => aqlQuery = TimeoutQuery(userQuery)

\* C11: for an intent with a condition keyword and a year filter, count-type
\* intents included, when attempts 1, 2 and 3 each returned an empty result the
\* prompt of attempt 4 contains the broadened-query directive
C11_FourthPromptBroadens ==
    (/\ pc = "awaitLLM"
     /\ attempts = 4
     /\ emptyStreak = 3
     /\ Len(intent.keywords) > 0
     /\ intent.filters.year # "")
        => prompt.guidance = "broadenConditionYear"

\* C12: a broadened prompt is built, and the year-only fallback query is
\* executed, only after three consecutive attempts were executed and returned
\* no rows
C12_BroadensAfterThreeEmpties ==
    /\ (pc = "awaitLLM" /\ prompt.guidance \in {"broadenConditionYear", "broadenYear"})
           => emptyStreak >= 3
    /\ pc = "awaitGeneral" => emptyStreak >= 3

\* C13: when llm.invoke throws during an attempt, a fallback query is taken and
\* executed in that attempt: the executor submits a query to the data store,
\* the legacy handler goes on with a fixed query
C13_GenerationFailureFallsBack ==
    [][/\ (pc = "awaitLLM" /\ faults' > faults)
            => (pc' = "awaitDb" /\ Len(dbLog') = Len(dbLog) + 1)
       /\ (pc \in {"legacyInitial", "legacyBetter"} /\ faults' > faults)
            => (aqlQuery' # "" /\ pc' = "legacyLoop")]_vars

\* C14: the fast path of a year-only question runs its query without a call of
\* the generation service and counts as attempt 1: after it the attempt count
\* is at least 1 and the history starts with its query, and the loop attempts
\* that follow a miss are numbered from 2
C14_FastPathIsAttemptOne ==
    (handler = "current" /\ IsYearOnly(intent)) =>
        /\ pc = "directYear" => llmCalls = 0
        /\ pc \in {"loop", "awaitLLM", "awaitDb", "awaitGeneral", "return", "process"} =>
               /\ attempts >= 1
               /\ Len(attemptHistory) >= 1
               /\ attemptHistory[1] = generateYearPatientFallbackQuery(intent.filters.year)
        /\ pc = "awaitLLM" => attempts >= 2

\* C15: the attemptHistory of an answer of the current handler is the list of
\* the query texts submitted to the data store during the request, in the
\* order of their submission
C15_HistoryIsWhatWasSubmitted ==
    (handler = "current" /\ pc = "done" /\ response.status = 200)
        => response.attemptHistory = dbLog

\* C16: after the improved query ran, the answer carries either the original
\* query and rows, or the rows of the improved query when these validate
C16_ImprovedRowsReplaceOnlyIfValid ==
    (/\ handler = "current"
     /\ pc = "done"
     /\ response.status = 200
     /\ analysis.verdict = "done"
     /\ ~analysis.isValid
     /\ RunsImproved(analysis.improvedQuery, attempts)) =>
        \/ response.query = successfulQuery /\ response.result = result
        \/ /\ response.query = cleanAqlQuery(analysis.improvedQuery)
           /\ isValidResult(response.result, intent.queryType, userQuery, intent)

\* C17: no validator accepts an empty result; the loops are left with an empty
\* result only when all attempts are used; and when every attempt returned no
\* rows (the year-only fallback included) the request ends with the no-results
\* conclusion
C17_EmptyNeverAccepted ==
    /\ pc \in ExecutorPositions =>
           ~isValidResult(<< >>, intent.queryType, userQuery, intent)
    /\ InLegacyLoop => ~legacyIsValidResult(<< >>, queryType, userQuery)
    /\ (handler = "current" /\ pc \in {"return", "process"} /\ Len(result) = 0)
           => attempts = maxAttempts
    /\ (pc = "legacyAfter" /\ Len(result) = 0)
           => (attempts = legacyMaxAttempts /\ successfulQuery = "")
    /\ (handler = "current" /\ pc = "done" /\ emptyStreak = maxAttempts
                             /\ Len(result) = 0)
           => (/\ response.status = 200
               /\ response.result = << >>
               /\ response.conclusion = NoResultsConclusion)

C17_Witness ==
    /\ handler = "current"
    /\ pc = "done"
    /\ emptyStreak = maxAttempts
    /\ Len(result) = 0
    /\ response.attempts = maxAttempts
    /\ response.conclusion = NoResultsConclusion

\* C18: whenever the gate answered shouldProcessQuery = false, with an error
\* status as well, the handler answers at once with the gate's message,
\* attempts = 0 and an empty history, and no call of the generation service or
\* of the data store is made
C18_GateRejectionStopsRequest ==
    [][(pc = "gated" /\ gate.kind = "json" /\ ~gate.shouldProcessQuery)
          => (/\ pc' = "done"
              /\ response'.conclusion = gate.message
              /\ response'.attempts = 0
              /\ response'.attemptHistory = << >>
              /\ llmCalls' = 0
              /\ dbLog' = << >>)]_vars

\* C19: a request whose question is empty or white space only gets the 400
\* answer 'Query is required' (an unreadable body gets the 500 answer), and
\* the gate, the intent analysis, the generation service and the data store
\* are not called for it
C19_EmptyQuestionRejectedFirst ==
    ((\A i \in 1..Len(userQuery) : IsSpace(CharAt(userQuery, i))) /\ pc # "start") =>
        /\ pc = "done"
        /\ \/ response.status = 400 /\ response.error = "Query is required"
           \/ /\ response.status = 500
              /\ response.conclusion = "Error: " \o SyntaxErrorMessage
        /\ gate = NoGate
        /\ intent = analyzeQueryIntent("")
        /\ queryType = ""
        /\ llmCalls = 0
        /\ dbLog = << >>

C19_Witness ==
    /\ userQuery = "  "
    /\ pc = "done"
    /\ response.status = 400
    /\ response.error = "Query is required"

\* C20: cleanAqlQuery is idempotent: cleaning a cleaned text changes nothing
C20_CleanIsIdempotent ==
    pc = "cleaned" => cleanAqlQuery(aqlQuery) = aqlQuery

\* C21: a query text that follows an 'AQL:' or 'SQL:' prefix, with or without
\* a space after the colon, is returned without the prefix, colon included
C21_ColonPrefixRemoved ==
    \A prefix \in {"AQL: ", "SQL:"} :
        (pc = "cleaned" /\ generation = prefix \o "RETURN 1") => aqlQuery = "RETURN 1"

\* C22: "How many patients are female?" is a count question with the gender
\* filter "F"; the count query that answers it filters GENDER == 'F' and the
\* conclusion is "There are N female patients in the database."
C22_FemaleCountQuestion ==
    (/\ handler = "current"
     /\ userQuery = "How many patients are female?"
     /\ pc = "done"
     /\ response.status = 200
     /\ IsSingleNumber(response.result)) =>
        /\ intent.queryType = "count"
        /\ intent.filters.gender = "F"
        /\ includes(response.query, "node.GENDER == 'F'")
        /\ response.conclusion = "There are " \o ToString(response.result[1].num)
                                  \o " female patients in the database."

\* t occurs in s as a word: no letter stands before or after the occurrence
OccursAsWord(s, t) ==
    \E i \in 1..(Len(s) - Len(t) + 1) :
        /\ SubSeq(s, i, i + Len(t) - 1) = t
        /\ i > 1 => CharAt(s, i - 1) \notin LowerChars
        /\ i + Len(t) <= Len(s) => CharAt(s, i + Len(t)) \notin LowerChars

\* C23: the gender filter is set only when a gendered term occurs in the
\* question as a word ('how many' sets none), and a question whose gendered
\* words are all female ones has the filter "F"
C23_GenderOnlyFromWords ==
    LET lq == toLowerCase(userQuery)
        maleWord == \E t \in {"male", "males", "men", "man"} : OccursAsWord(lq, t)
        femaleWord == \E t \in {"female", "females", "women", "woman"} : OccursAsWord(lq, t)
    IN  (handler = "current" /\ pc \in {"directCount", "execute"}) =>
            /\ intent.filters.gender # "" => (maleWord \/ femaleWord)
            /\ (femaleWord /\ ~maleWord) => intent.filters.gender = "F"

(***************************************************************************)
(* analyzeQueryIntent on its own: the questions are made of at most        *)
(* MaxWords of the words below.                                            *)
(***************************************************************************)
MaxWords == 3

IntentInit ==
    /\ handler = "current"
    /\ userQuery \in
          LET QuestionWords ==
                  { "List ", "How many ", "patients ", "with ", "arthritis ", "diabetes " }
          IN  UNION { { join(words, "") : words \in [1..n -> QuestionWords] } :
                      n \in 1..MaxWords }
    /\ generation = "RETURN LENGTH(FOR p IN MedGraph_node RETURN 1)"
    /\ pc = "intent"
    /\ gate = NoGate
    /\ intent = analyzeQueryIntent("")
    /\ queryType = ""
    /\ attempts = 0
    /\ attemptHistory = << >>
    /\ result = << >>
    /\ resultQuery = ""
    /\ successfulQuery = ""
    /\ aqlQuery = ""
    /\ prompt = NoPrompt
    /\ outcome = "none"
    /\ lastError = ""
    /\ timers = {}
    /\ aborted = FALSE
    /\ queryTimedOut = FALSE
    /\ useOptimizedPattern = FALSE
    /\ dbState = "idle"
    /\ dbLog = << >>
    /\ llmCalls = 0
    /\ faults = 0
    /\ emptyStreak = 0
    /\ analysis = NoAnalysis
    /\ response = NoResponse
    /\ calls = << >>
    /\ store = << >>
    /\ now = 0

IntentSpec == IntentInit /\ [][AnalyzeIntent]_vars

\* C24: a question analysed as general has no keywords, and no question that
\* names a term of the condition vocabulary is analysed as general
C24_GeneralHasNoKeywords ==
    (pc \in {"directCount", "execute"}) =>
        /\ intent.generalQuery => intent.keywords = << >>
        /\ (\E i \in 1..Len(medicalTerms) : includes(toLowerCase(userQuery), medicalTerms[i]))
               => ~intent.generalQuery

(***************************************************************************)
(* isValidResult and the conclusion of analyzeQueryResults on their own:    *)
(* the intent of a question with filters and the rows of a query, among    *)
(* them the gender distributions with counts up to MaxCount.               *)
(***************************************************************************)
MaxCount == 2

ValidateInit ==
    /\ handler = "current"
    /\ userQuery \in
          { "List women",
            "List women born in 1964",
            "List patients born in 1964",
            "Count patients born in 1964",
            "List asian patients",
            "List asian women",
            "Count asian patients",
            "List patients" }
    /\ generation = "FOR p IN MedGraph_node RETURN p"
    /\ pc = "validate"
    /\ gate = NoGate
    /\ intent = analyzeQueryIntent(userQuery)
    /\ queryType = ""
    /\ attempts = 0
    /\ attemptHistory = << >>
    /\ resultQuery = generation
    /\ result \in
          { << >>, << Null >>, << Number(5) >>,
            << Patient("p1", "F", "1964-02-11") >>,
            << Patient("p2", "M", "1970-07-30") >>,
            << Patient("p3", "F", "1970-07-30") >>,
            TwoPatients,
            << Patient("p3", "F", "1970-07-30"), Patient("p2", "M", "1970-07-30") >> }
          \cup { << GenderDistribution(male, female) >> :
                     male \in 0..MaxCount, female \in 0..MaxCount }
    /\ successfulQuery = ""
    /\ aqlQuery = ""
    /\ prompt = NoPrompt
    /\ outcome = "none"
    /\ lastError = ""
    /\ timers = {}
    /\ aborted = FALSE
    /\ queryTimedOut = FALSE
    /\ useOptimizedPattern = FALSE
    /\ dbState = "idle"
    /\ dbLog = << >>
    /\ llmCalls = 0
    /\ faults = 0
    /\ emptyStreak = 0
    /\ analysis = NoAnalysis
    /\ response = NoResponse
    /\ calls = << >>
    /\ store = << >>
    /\ now = 0

\* isValidResult(result, intent.queryType, userQuery, intent)
ValidateResult ==
    /\ pc = "validate"
    /\ outcome' = IF isValidResultThrows(result, intent.queryType, userQuery, intent)
                  THEN "error"
                  ELSE IF isValidResult(result, intent.queryType, userQuery, intent)
                  THEN "valid"
                  ELSE "invalid"
    /\ pc' = "validated"
    /\ UNCHANGED << faults, request, emptyStreak, gate, intent, queryType, attempts,
                    attemptHistory, result, resultQuery, successfulQuery, aqlQuery, prompt, lastError,
                    timers, aborted, legacyFlags, dbState, dbLog, llmCalls, analysis,
                    response >>

\* the conclusion analyzeQueryResults draws before it asks the service
AnalyzeResults ==
    /\ pc = "validate"
    /\ analysis' = analyzeWithoutLLM(userQuery, result, intent)
    /\ pc' = "analysed"
    /\ UNCHANGED << faults, request, emptyStreak, gate, intent, queryType, loopState,
                    prompt, outcome, lastError, timers, aborted, legacyFlags, dbState,
                    dbLog, llmCalls, response >>

ValidateSpec == ValidateInit /\ [][ValidateResult \/ AnalyzeResults]_vars

\* C25: with the gender filter "F", a list of records that isValidResult
\* accepts has only records of gender "F"
C25_ValidMeansAllFemale ==
    (/\ pc = "validated"
     /\ intent.filters.gender = "F"
     /\ outcome = "valid"
     /\ \A i \in 1..Len(result) : result[i].type = "object") =>
        \A i \in 1..Len(result) : HasGender(result[i], "F")

\* C26: with a year filter, isValidResult rejects every non-empty list of
\* records of which none contains that year, whatever the query type and the
\* gender filter; likewise with a race filter and the race
C26_FilterWithoutMatchRejected ==
    LET records == Len(result) > 0 /\ \A i \in 1..Len(result) : result[i].type = "object"
        noYear ==
            /\ intent.filters.year # ""
            /\ \A i \in 1..Len(result) : ~HasBirthYear(result[i], intent.filters.year)
        noRace ==
            /\ intent.filters.race # ""
            /\ \A i \in 1..Len(result) :
                  ~(/\ TruthyStr(result[i], "race")
                    /\ includes(toLowerCase(result[i].fields.race[1]), intent.filters.race))
    IN  (pc = "validated" /\ records /\ (noYear \/ noRace)) => outcome = "invalid"

\* toFixed(1) of a number of tenths
Tenths(n) == ToString(n \div 10) \o "." \o ToString(n % 10)

\* C27: for a gender distribution {male: a, female: b} the two percentages
\* of the conclusion are numbers, and their sum is 100 within 0.1, also when
\* a + b = 0 or one of the counts is 0
C27_PercentagesSumToHundred ==
    (pc = "analysed" /\ IsGenderDistribution(result)) =>
        \E m \in 0..1000 : \E f \in {999 - m, 1000 - m, 1001 - m} :
            /\ f >= 0
            /\ analysis.conclusion =
                  "There are " \o ToString(result[1].fields.male[1]) \o " male patients ("
                  \o Tenths(m) \o "%) and " \o ToString(result[1].fields.female[1])
                  \o " female patients (" \o Tenths(f) \o "%)."

(***************************************************************************)
(* Concurrent requests: MaxCalls calls of executeQueryWithLLM whose awaits *)
(* interleave.  A call has its arguments, the answers the services give to *)
(* its n-th llm.invoke and db.query, and its local variables.              *)
(***************************************************************************)
MaxCalls == 2

\* the n-th answer to a call; the last one is repeated
AnswerAt(script, n) == script[IF n > Len(script) THEN Len(script) ELSE n]

CallInputs ==
    LET text == [throws |-> FALSE, text |-> "aql RETURN 1"]
        rows(r) == [throws |-> FALSE, rows |-> r]
        fails == [throws |-> TRUE, rows |-> << >>]
    IN  { [userQuery |-> "Patients with diabetes born in 1964",
           llm |-> << text >>,
           db |-> << rows(<< >>), rows(<< >>), rows(<< >>), rows(TwoPatients) >>],
          [userQuery |-> "List patients born in 1964",
           llm |-> << text >>,
           db |-> << rows(<< >>), fails, rows(<< >>), rows(<< Number(5) >>) >>],
          [userQuery |-> "List patients",
           llm |-> << [throws |-> TRUE, text |-> ""], text >>,
           db |-> << fails >>],
          [userQuery |-> "List patients",
           llm |-> << text >>,
           db |-> << rows(<< Null >>), rows(TwoPatients) >>] }

\* the locals of executeQueryWithLLM when the call starts
NewCall(input) ==
    [userQuery |-> input.userQuery, intent |-> analyzeQueryIntent(input.userQuery),
     llm |-> input.llm, db |-> input.db, pc |-> "start", attempts |-> 0,
     successfulQuery |-> "", result |-> << >>, attemptHistory |-> << >>,
     aqlQuery |-> "", dbCalls |-> 0,
     returned |-> [query |-> "", result |-> << >>, attempts |-> 0, attemptHistory |-> << >>]]

\* the call runs up to its next await, or returns
Step(call) ==
    LET int == call.intent
        general == generateYearPatientFallbackQuery(int.filters.year)
        return(c) ==
            [c EXCEPT !.pc = "return",
                      !.returned = [query |-> c.successfulQuery, result |-> c.result,
                                    attempts |-> c.attempts,
                                    attemptHistory |-> c.attemptHistory]]
        \* the top of the while loop, up to llm.invoke
        loop(c) ==
            IF c.attempts < maxAttempts
            THEN [c EXCEPT !.pc = "awaitLLM", !.attempts = @ + 1]
            ELSE return(c)
        served == [call EXCEPT !.dbCalls = @ + 1]
        answer == AnswerAt(call.db, call.dbCalls + 1)
    IN  CASE call.pc = "start" ->
               IF IsYearOnly(int) THEN [call EXCEPT !.pc = "awaitYear"] ELSE loop(call)
          [] call.pc = "awaitYear" ->
               IF ~answer.throws /\ Len(answer.rows) > 0
               THEN [served EXCEPT !.pc = "return",
                                   !.returned = [query |-> general, result |-> answer.rows,
                                                 attempts |-> 1,
                                                 attemptHistory |-> << general >>]]
               ELSE loop(served)
          [] call.pc = "awaitLLM" ->
               LET generated == AnswerAt(call.llm, call.attempts)
               IN  IF generated.throws THEN loop(call)
                   ELSE [call EXCEPT !.pc = "awaitDb",
                                     !.aqlQuery = cleanAqlQuery(generated.text),
                                     !.attemptHistory = Append(@, cleanAqlQuery(generated.text))]
          [] call.pc = "awaitDb" ->
               IF answer.throws THEN loop(served)
               ELSE LET got == [served EXCEPT !.result = answer.rows]
                    IN  IF NeedsGeneralQuery(answer.rows, call.attempts, int)
                        THEN [got EXCEPT !.pc = "awaitGeneral",
                                         !.attemptHistory = Append(@, general)]
                        ELSE IF isValidResultThrows(answer.rows, int.queryType, call.userQuery, int)
                        THEN loop(got)
                        ELSE IF Accepts(answer.rows, call.userQuery, int)
                        THEN return([got EXCEPT !.successfulQuery = call.aqlQuery])
                        ELSE loop(got)
          [] call.pc = "awaitGeneral" ->
               IF answer.throws THEN loop(served)
               ELSE IF Len(answer.rows) > 0
               THEN return([served EXCEPT !.result = answer.rows,
                                          !.successfulQuery = general])
               ELSE loop(served)
          [] OTHER -> call

\* the locals a call would read were attemptHistory an array of the module
SharedHistory(cs, r) == [cs[r] EXCEPT !.attemptHistory = cs[1].attemptHistory]

\* the locals a running call reads: its own
Locals(cs, r) == cs[r]

\* an await of call r is answered, or the call starts
CallStep ==
    /\ pc = "calls"
    /\ \E r \in DOMAIN calls :
          /\ calls[r].pc # "return"
          /\ calls' = [calls EXCEPT ![r] = Step(Locals(calls, r))]
    /\ UNCHANGED << handler, userQuery, generation, store, now, pc, faults, emptyStreak,
                    gate, intent, queryType, loopState, prompt, outcome, lastError, timers,
                    aborted, legacyFlags, dbState, dbLog, llmCalls, analysis, response >>

PairInit ==
    /\ handler = "current"
    /\ userQuery = ""
    /\ generation = ""
    /\ pc = "calls"
    /\ gate = NoGate
    /\ intent = analyzeQueryIntent("")
    /\ queryType = ""
    /\ attempts = 0
    /\ attemptHistory = << >>
    /\ result = << >>
    /\ resultQuery = ""
    /\ successfulQuery = ""
    /\ aqlQuery = ""
    /\ prompt = NoPrompt
    /\ outcome = "none"
    /\ lastError = ""
    /\ timers = {}
    /\ aborted = FALSE
    /\ queryTimedOut = FALSE
    /\ useOptimizedPattern = FALSE
    /\ dbState = "idle"
    /\ dbLog = << >>
    /\ llmCalls = 0
    /\ faults = 0
    /\ emptyStreak = 0
    /\ analysis = NoAnalysis
    /\ response = NoResponse
    /\ calls \in [1..MaxCalls -> {NewCall(input) : input \in CallInputs}]
    /\ store = << >>
    /\ now = 0

PairSpec == PairInit /\ [][CallStep]_vars

\* the call run alone from its start against the same answers
RECURSIVE RunAlone(_, _)
RunAlone(call, steps) ==
    IF call.pc = "return" \/ steps = 0 THEN call
    ELSE RunAlone(Step(call), steps - 1)

C29_TimeoutOnlyFromOwnTimer ==
    [][(handler = "legacy" /\ pc = "legacyDb" /\ pc' = "legacyLoop" /\ outcome' = "timeout")
           => attempts \notin timers]_vars

\* C30: a request submits at most 8 queries to the data store, the fast-path
\* and fallback queries of the executor and the last execution after the
\* legacy loop included
C30_AtMostEightExecutions == Len(dbLog) <= maxAttempts

\* C31: the attempts number of every response is between 0 and 8, and it is
\* above the attempts of the executor (by the improved query's 1) only when
\* these are below 8
C31_ResponseAttemptsInRange ==
    pc = "done" =>
        /\ response.attempts \in 0..maxAttempts
        /\ (handler = "current" /\ response.attempts > attempts) => attempts < attemptLimit

\* the executor used all 8 attempts and the analysis proposed an improved query
C31_Witness ==
    /\ pc = "done"
    /\ handler = "current"
    /\ response.status = 200
    /\ response.attempts = maxAttempts
    /\ attempts = maxAttempts
    /\ analysis.verdict = "done"
    /\ ~analysis.isValid
    /\ analysis.improvedQuery # ""

\* C32: in the executor's loop the first query that returns a row ends the
\* loop, so every iteration after the first starts with an empty stored
\* result and gives the prompt builder the 'No results found' reason
C32_RetryOnlyAfterEmptyResult ==
    (handler = "current" /\ pc = "awaitLLM" /\ attempts > 1) =>
        /\ Len(result) = 0
        /\ prompt.errorMessage =
              "No results found. There might not be any patients matching these criteria."

\* C33: a non-empty result comes with the text of the query whose execution
\* produced it, in what executeQueryWithLLM returns and in the response made
\* from what processQueryResults returns (the executor's rows with their
\* query, or the rows of the query run last with that query)
C33_RowsComeWithTheirQuery ==
    [][/\ (handler = "current" /\ pc' = "process" /\ Len(result') > 0)
              => successfulQuery' = resultQuery'
       /\ (/\ handler = "current"
           /\ pc \in {"process", "analysed", "awaitAnalysis", "awaitImproved"}
           /\ pc' = "done"
           /\ response'.status = 200
           /\ Len(response'.result) > 0)
              => \/ response'.result = result /\ response'.query = resultQuery
                 \/ pc = "awaitImproved" /\ response'.query = dbLog[Len(dbLog)]]_vars

(***************************************************************************)
(* getCachedData (app/utils/cache.ts): MaxCalls callers, the entries of    *)
(* localStorage by key (no entry: the empty sequence) and the clock, which *)
(* advances by half the time to live up to MaxTicks times.                 *)
(***************************************************************************)
CACHE_TTL == 3600000

MaxTicks == 3

CacheInit ==
    /\ handler = "current"
    /\ userQuery = ""
    /\ generation = ""
    /\ pc = "cache"
    /\ gate = NoGate
    /\ intent = analyzeQueryIntent("")
    /\ queryType = ""
    /\ attempts = 0
    /\ attemptHistory = << >>
    /\ result = << >>
    /\ resultQuery = ""
    /\ successfulQuery = ""
    /\ aqlQuery = ""
    /\ prompt = NoPrompt
    /\ outcome = "none"
    /\ lastError = ""
    /\ timers = {}
    /\ aborted = FALSE
    /\ queryTimedOut = FALSE
    /\ useOptimizedPattern = FALSE
    /\ dbState = "idle"
    /\ dbLog = << >>
    /\ llmCalls = 0
    /\ faults = 0
    /\ emptyStreak = 0
    /\ analysis = NoAnalysis
    /\ response = NoResponse
    /\ calls = [c \in 1..MaxCalls |-> [key |-> "stats", pc |-> "idle", value |-> ""]]
    /\ store = [key \in {"stats", "conditions"} |-> << >>]
    /\ now = 0

\* the clock advances
Tick(step) ==
    /\ pc \in {"cache", "stats"}
    /\ now + step <= MaxTicks * step
    /\ now' = now + step
    /\ UNCHANGED << calls, store >>
    /\ UNCHANGED << handler, userQuery, generation, pc, faults, emptyStreak, gate,
                    intent, queryType, loopState, prompt, outcome, lastError, timers,
                    aborted, legacyFlags, dbState, dbLog, llmCalls, analysis, response >>

\* getCachedData(key, fetchFn) up to its return of the cached data or to its
\* await of fetchFn()
GetCachedData ==
    /\ pc = "cache"
    /\ \E c \in DOMAIN calls : \E key \in DOMAIN store :
          /\ calls[c].pc # "fetching"
          /\ LET cached == store[key]
             IN  IF cached # << >> /\ now - cached[1].timestamp < CACHE_TTL
                 THEN calls' = [calls EXCEPT ![c] = [key |-> key, pc |-> "returned",
                                                     value |-> cached[1].data]]
                 ELSE calls' = [calls EXCEPT ![c] = [key |-> key, pc |-> "fetching",
                                                     value |-> ""]]
    /\ UNCHANGED << store, now >>
    /\ UNCHANGED << handler, userQuery, generation, pc, faults, emptyStreak, gate,
                    intent, queryType, loopState, prompt, outcome, lastError, timers,
                    aborted, legacyFlags, dbState, dbLog, llmCalls, analysis, response >>

\* fetchFn() resolves: the entry is written and the data returned
FetchResolve ==
    /\ pc = "cache"
    /\ \E c \in DOMAIN calls : \E freshData \in {"a", "b"} :
          /\ calls[c].pc = "fetching"
          /\ store' = [store EXCEPT ![calls[c].key] =
                                        << [data |-> freshData, timestamp |-> now] >>]
          /\ calls' = [calls EXCEPT ![c].pc = "returned", ![c].value = freshData]
    /\ UNCHANGED now
    /\ UNCHANGED << handler, userQuery, generation, pc, faults, emptyStreak, gate,
                    intent, queryType, loopState, prompt, outcome, lastError, timers,
                    aborted, legacyFlags, dbState, dbLog, llmCalls, analysis, response >>

\* fetchFn() rejects and the entry is removed
FetchRejectClears ==
    /\ pc = "cache"
    /\ \E c \in DOMAIN calls :
          /\ calls[c].pc = "fetching"
          /\ calls' = [calls EXCEPT ![c].pc = "rejected"]
          /\ store' = [store EXCEPT ![calls[c].key] = << >>]
    /\ UNCHANGED now
    /\ UNCHANGED << handler, userQuery, generation, pc, faults, emptyStreak, gate,
                    intent, queryType, loopState, prompt, outcome, lastError, timers,
                    aborted, legacyFlags, dbState, dbLog, llmCalls, analysis, response >>

\* fetchFn() rejects: the await throws and the error leaves getCachedData
FetchReject ==
    /\ pc = "cache"
    /\ \E c \in DOMAIN calls :
          /\ calls[c].pc = "fetching"
          /\ calls' = [calls EXCEPT ![c].pc = "rejected"]
    /\ UNCHANGED << store, now >>
    /\ UNCHANGED << handler, userQuery, generation, pc, faults, emptyStreak, gate,
                    intent, queryType, loopState, prompt, outcome, lastError, timers,
                    aborted, legacyFlags, dbState, dbLog, llmCalls, analysis, response >>

CacheSpec ==
    CacheInit /\ [][GetCachedData \/ FetchResolve \/ FetchReject \/ Tick(CACHE_TTL \div 2)]_vars

\* C34: getCachedData calls fetchFn only when the key has no entry or one
\* that is at least an hour old; a fresh entry is returned without the call
\* and left as it is; and when fetchFn rejects the error reaches the caller
\* and the entry stays unchanged
C34_FetchOnlyWhenStale ==
    [][\A c \in DOMAIN calls :
          LET key == calls'[c].key
              fresh == store[key] # << >> /\ now - store[key][1].timestamp < CACHE_TTL
          IN  /\ (calls[c].pc # "fetching" /\ calls'[c].pc = "fetching") => ~fresh
              /\ (calls[c].pc # "fetching" /\ calls'[c] # calls[c] /\ fresh)
                     => /\ calls'[c].pc = "returned"
                        /\ calls'[c].value = store[key][1].data
                        /\ store' = store
              /\ (calls[c].pc = "fetching" /\ calls'[c].pc = "rejected")
                     => store' = store]_vars

\* a caller's fetchFn rejected while the key has an old entry, which is kept
C34_Witness ==
    /\ pc = "cache"
    /\ \E c \in DOMAIN calls :
          /\ calls[c].pc = "rejected"
          /\ store[calls[c].key] # << >>
          /\ now - store[calls[c].key][1].timestamp >= CACHE_TTL

(***************************************************************************)
(* GET of app/api/dashboard/stats/route.ts: MaxCalls concurrent requests   *)
(* and the module's statsCache, here store.data (empty for null) and       *)
(* store.timestamp; store.refreshed records when the assignment was made.  *)
(***************************************************************************)
STATS_TTL == 600000

\* the body of a response: the statistics, or the error of status 500
NoStats == [status |-> 0, totalPatients |-> 0, connectionStatus |-> FALSE, cacheNotice |-> ""]

StatsInit ==
    /\ handler = "current"
    /\ userQuery = ""
    /\ generation = ""
    /\ pc = "stats"
    /\ gate = NoGate
    /\ intent = analyzeQueryIntent("")
    /\ queryType = ""
    /\ attempts = 0
    /\ attemptHistory = << >>
    /\ result = << >>
    /\ resultQuery = ""
    /\ successfulQuery = ""
    /\ aqlQuery = ""
    /\ prompt = NoPrompt
    /\ outcome = "none"
    /\ lastError = ""
    /\ timers = {}
    /\ aborted = FALSE
    /\ queryTimedOut = FALSE
    /\ useOptimizedPattern = FALSE
    /\ dbState = "idle"
    /\ dbLog = << >>
    /\ llmCalls = 0
    /\ faults = 0
    /\ emptyStreak = 0
    /\ analysis = NoAnalysis
    /\ response = NoResponse
    /\ calls = [c \in 1..MaxCalls |->
                    [pc |-> "idle", now |-> 0, dbStatus |-> FALSE, response |-> NoStats]]
    /\ store = [data |-> << >>, timestamp |-> 0, refreshed |-> 0]
    /\ now = 0

\* GET up to its answer from the cache or to its await of db.version()
StatsGet ==
    /\ pc = "stats"
    /\ \E c \in DOMAIN calls :
          /\ calls[c].pc \in {"idle", "done", "caught"}
          /\ IF store.data # << >> /\ now - store.timestamp < STATS_TTL
             THEN calls' = [calls EXCEPT ![c] = [pc |-> "done", now |-> now,
                                                 dbStatus |-> FALSE,
                                                 response |-> store.data[1]]]
             ELSE calls' = [calls EXCEPT ![c] = [pc |-> "version", now |-> now,
                                                 dbStatus |-> FALSE,
                                                 response |-> NoStats]]
    /\ UNCHANGED << store, now >>
    /\ UNCHANGED << handler, userQuery, generation, pc, faults, emptyStreak, gate,
                    intent, queryType, loopState, prompt, outcome, lastError, timers,
                    aborted, legacyFlags, dbState, dbLog, llmCalls, analysis, response >>

\* db.version() settles, and db.query is awaited
StatsVersionAnswer ==
    /\ pc = "stats"
    /\ \E c \in DOMAIN calls : \E dbStatus \in BOOLEAN :
          /\ calls[c].pc = "version"
          /\ calls' = [calls EXCEPT ![c].pc = "query", ![c].dbStatus = dbStatus]
    /\ UNCHANGED << store, now >>
    /\ UNCHANGED << handler, userQuery, generation, pc, faults, emptyStreak, gate,
                    intent, queryType, loopState, prompt, outcome, lastError, timers,
                    aborted, legacyFlags, dbState, dbLog, llmCalls, analysis, response >>

\* db.query and cursor.next() answer with the counts: the cache is assigned;
\* or they throw (cursor.next() of no row gives undefined, and reading its
\* patientCount throws): the catch block answers
StatsQueryAnswer ==
    /\ pc = "stats"
    /\ \E c \in DOMAIN calls :
          /\ calls[c].pc = "query"
          /\ \/ \E patientCount \in {1, 2} :
                   LET responseData ==
                           [status |-> 200, totalPatients |-> patientCount,
                            connectionStatus |-> calls[c].dbStatus, cacheNotice |-> ""]
                   IN  /\ store' = [data |-> << responseData >>,
                                    timestamp |-> calls[c].now, refreshed |-> now]
                       /\ calls' = [calls EXCEPT ![c].pc = "done",
                                                 ![c].response = responseData]
             \/ /\ calls' =
                      [calls EXCEPT
                         ![c].pc = "caught",
                         ![c].response =
                             IF store.data # << >>
                             THEN [store.data[1] EXCEPT
                                     !.connectionStatus = FALSE,
                                     !.cacheNotice = "Using cached data due to query error"]
                             ELSE [NoStats EXCEPT !.status = 500]]
                /\ UNCHANGED store
    /\ UNCHANGED now
    /\ UNCHANGED << handler, userQuery, generation, pc, faults, emptyStreak, gate,
                    intent, queryType, loopState, prompt, outcome, lastError, timers,
                    aborted, legacyFlags, dbState, dbLog, llmCalls, analysis, response >>

StatsSpec ==
    StatsInit /\ [][StatsGet \/ StatsVersionAnswer \/ StatsQueryAnswer
                     \/ Tick(STATS_TTL \div 2)]_vars

\* C35: a GET that arrives less than 10 minutes after the last successful
\* refresh answers with the cached statistics and does not query the data
\* store; a refresh that fails while statistics are cached answers with them
\* and connectionStatus false, and leaves statsCache as it is
C35_RecentRefreshIsServedFromCache ==
    [][\A c \in DOMAIN calls :
          /\ (/\ calls[c].pc \in {"idle", "done", "caught"}
              /\ calls'[c] # calls[c]
              /\ store.data # << >>
              /\ now - store.refreshed < STATS_TTL)
                 => calls'[c].pc = "done" /\ calls'[c].response = store.data[1]
          /\ (calls[c].pc = "query" /\ calls'[c].pc = "caught" /\ store.data # << >>)
                 => /\ calls'[c].response =
                          [store.data[1] EXCEPT
                             !.connectionStatus = FALSE,
                             !.cacheNotice = "Using cached data due to query error"]
                    /\ store' = store]_vars
====
